---- MODULE Spec2Model ----
(***************************************************************************)
(* Hybrid retrieval (dense + BM25 + reciprocal rank fusion) and the        *)
(* chunk / embedding synchronisation of the MPES legal-document chatbot.   *)
(*                                                                         *)
(*   SpecFusion    _reciprocal_rank_fusion as a pure function              *)
(*   SpecRetrieval _buscar_documentos_chroma and the searches it calls     *)
(*   SpecChunking  collection, split_text_into_blocks, embedding pass      *)
(*   SpecRechunk   collection and split_text_into_blocks, pass by pass     *)
(*   SpecEmbedLoop main_embedding_loop over process_document_embeddings    *)
(*   SpecProvider  get_embedding_from_api and its retry decorator          *)
(*   SpecEmbedPass one pass of process_document_embeddings, call by call   *)
(*   SpecCorpus    collection with failing writes over two documents       *)
(*   SpecIndex     ChatbotMPES.__init__, the BM25 indices and the queries  *)
(*   SpecSplit     the chunking strategies of etl.py, run twice            *)
(*   SpecHistory   the session histories and the endpoints that use them   *)
(*   SpecBatch     the update list of process_document_embeddings          *)
(*   SpecFase1     phase 1 of experimento.py over stopped and resumed runs *)
(*   SpecLotes     process_documents_in_batches of etl.py, call by call    *)
(***************************************************************************)
EXTENDS Integers, Sequences, FiniteSets, TLC

\* ------------------------------------------------------------- bounds
NumChunks == 3     \* distinct chunk ids in the lists handed to the fusion
CorpusSize == 2    \* chunks held by one strategy's collection / BM25 index
MaxK == 3          \* largest result count a request asks for
MaxScore == 2      \* BM25 scores are drawn from -1 .. MaxScore
MaxTextLen == 3    \* a document's text holds at most MaxTextLen segments
MaxChunkSize == 2  \* chunk_size is drawn from 1 .. MaxChunkSize
MaxTokens == 2     \* model_config['max_tokens'], counted in sentences
MaxHistory == 2    \* history_length is drawn from 0 .. MaxHistory
MaxRequests == 3   \* a behaviour handles at most MaxRequests requests
MaxBlocks == 201   \* blocks one embedding pass sends to the provider
MaxRuns == 3        \* times the experiment script is started
MaxLoteChunks == 17 \* chunks one document batch of etl.py produces

\* ---------------------------------------------------- program constants
RRF_K == 60
MAX_EMBEDDING_BATCH_UPDATES == 100
EMBEDDING_MAIN_LOOP_MAX_ATTEMPTS == 10
EMBEDDING_MAIN_LOOP_NO_PROGRESS_THRESHOLD == 3
EMBEDDING_API_MAX_RETRIES == 5
EMBEDDING_DB_MAX_RETRIES == 3
EMBEDDING_MODEL_DIMENSION == 1536
EMBEDDING_API_BATCH_SIZE == 16
CHROMA_UPSERT_BATCH_SIZE == 2048

VARIABLES
    \* _reciprocal_rank_fusion, applied to drawn inputs
    rrfPc,          \* "input" before the call, "done" after it
    rrfLists,       \* <<A, B>>: the two ranked lists
    rrfFinalK,      \* final_k
    rrfScore,       \* ranked_results[id]["score"] after the accumulation of [A, B]
    rrfOut,         \* _reciprocal_rank_fusion([A, B], final_k)
    rrfSwapped      \* _reciprocal_rank_fusion([B, A], final_k)

VARIABLES
    \* the last call of _buscar_documentos_chroma
    qPc,            \* "idle" before any call, "done" after one
    qMode,          \* search_type: "vetorial", "textual", "hibrida", or another value
    qMaxK,          \* max_k
    qCollection,    \* whether self.collections holds the embedding model's collection
    qDense,         \* what the dense side meets: provider outcome, Chroma's ranking
    qSparse,        \* what the sparse side meets: BM25 scores, argsort's order
    qRan,           \* the searches the call invoked
    qResult,        \* the list returned
    qRaised         \* TRUE when the call ended with an exception instead

VARIABLES
    \* the MongoDB collection 'portarias' and the passes over it
    portarias,      \* _id -> document (texto_completo, chunk_params, texto_blocos)
    written,        \* _ids on which the chunking pass just run did update_one
    stats,          \* the stats the embedding pass just run returned
    lastOp,         \* the program just run ("sync", "chunk", "embed", or "none") and
                    \* the chunk_size and chunk_overlap it was called with
    lastPassOver,   \* SpecRechunk: the latest chunking pass, its chunk_size and
                    \* chunk_overlap, and the _ids whose texto_completo no collection
                    \* has replaced since
    chunkLog,       \* SpecCorpus: the documents whose chunking raised in the latest
                    \* chunking pass, and those whose status could not be written
    syncLog,        \* SpecCorpus: the _ids stored before the latest run of the
                    \* collector, the _ids it extracted, and what its writes met
    tick            \* flips at every pass, as the timestamps the passes write do

VARIABLES
    \* main_embedding_loop
    loopPc,                             \* "idle", "attempt", "final" or "returned"
    attempt_main,
    previous_pending_count_main,        \* <<>> stands for float('inf')
    current_pending_count_main,         \* <<>> stands for float('inf')
    consecutive_no_progress_count_main,
    success_overall,
    returned,                           \* the value main_embedding_loop returned
    passAfter,      \* <<n>>: the count taken after the latest pass that was counted
    decreased,      \* that count is lower than the one after the counted pass before it
    stalled         \* the latest counted passes that each met a failure and whose count
                    \* is not lower than the one after the counted pass before

VARIABLES
    \* one call of get_embedding_from_api
    callPc,         \* "idle" before the call, "done" after it
    callText,       \* text_to_embed
    callResponses,  \* what requests.post meets at the first, second, ... attempt
    callResult      \* how the call ended, and after how many attempts

VARIABLES
    \* one pass of process_document_embeddings, call by call
    passPc,         \* "idle" before the pass, "done" after it
    passCalls,      \* <<_id, index>> of a block -> what the provider answered for it and
                    \* how get_embedding_from_api ended
    passLog,        \* the blocks the provider was called for, and those whose
                    \* UpdateOne was appended to all_updates_for_bulk, in order
    passDb          \* what the bulk_write attempts met, and how the write ended

VARIABLES
    \* ChatbotMPES: the Chroma collection, the construction and the queries
    collection,             \* chunk id -> its chunking_strategy metadata tag
    initPc,                 \* "start", "indexing", "ready" or "failed"
    remaining,              \* the strategies __init__ has still to index
    bm25_indices,           \* self.bm25_indices: strategy -> the corpus indexed
    doc_store_by_strategy,  \* self.doc_store_by_strategy: strategy -> list of dicts
    chatbot_instance,       \* TRUE once lifespan has assigned the instance
    snapshot,               \* both dicts as they were when __init__ returned
    ixQuery                 \* the latest _buscar_documentos_chroma call and what it read

VARIABLES
    \* process_documents_in_batches: the chunking of one document by one strategy
    splitPc,        \* "input", "once" after a run, "twice" after a second one
    splitText,      \* texto_completo, a sequence of sentences
    splitStrategy,  \* the entry of CHUNKING_STRATEGIES applied
    splitClient,    \* TRUE when langchain_embeddings is a client, FALSE when None
    splitRuns       \* per run: what the provider did, the chunks and their ids

VARIABLES
    \* ChatbotMPES.historico and the requests handled
    historico,      \* self.historico: session_id -> deque (its identity, maxlen, items)
    requests,       \* the requests handled so far
    turns,          \* session_id -> the turns responder generated with tokens > 0
    latest,         \* session_id -> history_length of the latest request of the session
    lastReq         \* the request just handled and how it went

VARIABLES
    \* process_document_embeddings, block by block
    batchPc,                \* "loop" inside the for loops, "done" once stats is returned
    blocksLeft,             \* the blocks the cursor has still to deliver to the provider
    all_updates_for_bulk,   \* the UpdateOne operations not yet handed to a bulk write
    generated,              \* stats['embeddings_gerados_sucesso']
    bulk_writes,            \* the calls of _execute_embedding_bulk_write, in order
    erros_salvamento_db     \* stats['erros_salvamento_db']

storeVars == <<portarias, written, stats, lastOp, lastPassOver, syncLog, chunkLog, tick>>

loopVars ==
    <<loopPc, attempt_main, previous_pending_count_main, current_pending_count_main,
      consecutive_no_progress_count_main, success_overall, returned,
      passAfter, decreased, stalled>>

fusionVars == <<rrfPc, rrfLists, rrfFinalK, rrfScore, rrfOut, rrfSwapped>>

retrievalVars == <<qPc, qMode, qMaxK, qCollection, qDense, qSparse, qRan, qResult, qRaised>>

traceVars == <<callPc, callText, callResponses, callResult, passPc, passCalls, passLog, passDb>>

indexVars ==
    <<collection, initPc, remaining, bm25_indices, doc_store_by_strategy,
      chatbot_instance, snapshot, ixQuery>>

splitVars == <<splitPc, splitText, splitStrategy, splitClient, splitRuns>>

historyVars == <<historico, requests, turns, latest, lastReq>>

projetoVars == <<indexVars, splitVars, historyVars>>

batchVars ==
    <<batchPc, blocksLeft, all_updates_for_bulk, generated, bulk_writes,
      erros_salvamento_db>>

\* experimento.py, phase 1: the intermediate file as the sequence of writes
\* that reached it, the keys loaded at start, the position in the loop
VARIABLES
    arquivo, recuperacoes_ja_feitas, f1Pc, f1Pos, f1Runs, escritas,
    apiRetorno, ultimaChamada

fase1Vars ==
    <<arquivo, recuperacoes_ja_feitas, f1Pc, f1Pos, f1Runs, escritas,
      apiRetorno, ultimaChamada>>

\* etl.py, process_documents_in_batches: the lists of the current document
\* batch, the collection, and what the function returned
VARIABLES
    etlPc, lotes, lote, all_chunks_ids, all_chunks_texts, all_chunks_metadatas,
    all_embeddings, embJ, colecao, overall_success, gerados, falhaEm

loteVars ==
    <<etlPc, lotes, lote, all_chunks_ids, all_chunks_texts, all_chunks_metadatas,
      all_embeddings, embJ, colecao, overall_success, gerados, falhaEm>>

scriptVars == <<fase1Vars, loteVars>>

jobVars == <<batchVars, scriptVars>>

vars == <<fusionVars, retrievalVars, storeVars, loopVars, traceVars, projetoVars, jobVars>>

\* ------------------------------------------------------------ helpers
Min(a, b) == IF a <= b THEN a ELSE b

Range(s) == {s[i] : i \in 1..Len(s)}

ChunkIds == 1..NumChunks

CorpusIds == 1..CorpusSize

\* Sequences over S without repetition, of length at most n.
RECURSIVE DistinctSeqs(_, _)
DistinctSeqs(S, n) ==
    IF n = 0 THEN {<<>>}
    ELSE LET shorter == DistinctSeqs(S, n - 1)
         IN shorter \cup UNION {{Append(s, x) : x \in S \ Range(s)} : s \in shorter}

\* A result dict as the searches build it: {"_id": ..., "score": ...}.
Item(id, score) == [_id |-> id, score |-> score]

Ids(results) == [i \in 1..Len(results) |-> results[i]._id]

\* ------------------------------------------- _reciprocal_rank_fusion
\* Fused scores are sums of 1/(k + rank + 1); they are kept exactly, as
\* numerators over the common denominator ScoreScale.
RECURSIVE ScaleUpTo(_)
ScaleUpTo(n) == IF n = 0 THEN 1 ELSE (RRF_K + n) * ScaleUpTo(n - 1)

ScoreScale == ScaleUpTo(NumChunks)

\* 1.0 / (k + rank + 1), rank zero-based
ContributionOneBased(rank) == ScoreScale \div (RRF_K + rank + 2)

Contribution(rank) == ScoreScale \div (RRF_K + rank + 1)

RECURSIVE AccumulateListOverwrite(_, _, _)
AccumulateListOverwrite(ranked, results, pos) ==
    IF pos > Len(results) THEN ranked
    ELSE LET result == results[pos]
             doc_id == result._id
             base == IF doc_id \in DOMAIN ranked.score
                     THEN ranked
                     ELSE [order |-> Append(ranked.order, doc_id),
                           score |-> ranked.score @@ (doc_id :> 0),
                           doc   |-> ranked.doc @@ (doc_id :> result)]
             next == [base EXCEPT !.score[doc_id] = Contribution(pos - 1)]
         IN AccumulateListOverwrite(next, results, pos + 1)

EmptyRanked == [order |-> <<>>, score |-> <<>>, doc |-> <<>>]

\* The inner loop over one list: ranked_results is a dict, which keeps the
\* order in which its keys were first inserted.
RECURSIVE AccumulateList(_, _, _)
AccumulateList(ranked, results, pos) ==
    IF pos > Len(results) THEN ranked
    ELSE LET result == results[pos]
             doc_id == result._id
             base == IF doc_id \in DOMAIN ranked.score
                     THEN ranked
                     ELSE [order |-> Append(ranked.order, doc_id),
                           score |-> ranked.score @@ (doc_id :> 0),
                           doc   |-> ranked.doc @@ (doc_id :> result)]
             next == [base EXCEPT !.score[doc_id] = @ + Contribution(pos - 1)]
         IN AccumulateList(next, results, pos + 1)

RECURSIVE AccumulateLists(_, _, _)
AccumulateLists(ranked, results_lists, l) ==
    IF l > Len(results_lists) THEN ranked
    ELSE AccumulateLists(AccumulateList(ranked, results_lists[l], 1),
                         results_lists, l + 1)

RankedResults(results_lists) == AccumulateLists(EmptyRanked, results_lists, 1)

\* sorted(..., key=score, reverse=True) is stable: equal scores keep the
\* order they had.  Insert x after every element whose score is >= x's.
RECURSIVE InsertDesc(_, _, _)
InsertDesc(sorted, x, score) ==
    IF sorted = <<>> THEN <<x>>
    ELSE IF score[Head(sorted)] >= score[x]
         THEN <<Head(sorted)>> \o InsertDesc(Tail(sorted), x, score)
         ELSE <<x>> \o sorted

RECURSIVE SortedAscending(_, _, _)
SortedAscending(order, score, n) ==
    IF n = 0 THEN <<>>
    ELSE LET rest == SortedAscending(order, score, n - 1)
             x == order[n]
             before == SelectSeq(rest, LAMBDA y : score[y] <= score[x])
             after == SelectSeq(rest, LAMBDA y : score[y] > score[x])
         IN before \o <<x>> \o after

RECURSIVE SortedByScoreDesc(_, _, _)
SortedByScoreDesc(order, score, n) ==
    IF n = 0 THEN <<>>
    ELSE InsertDesc(SortedByScoreDesc(order, score, n - 1), order[n], score)

SortedResults(ranked) == SortedByScoreDesc(ranked.order, ranked.score, Len(ranked.order))

\* The list, were it returned whole.
WholeList(list, final_k) == list

\* final_list[:final_k], final_k >= 1
Truncate(list, final_k) == SubSeq(list, 1, Min(final_k, Len(list)))

ReciprocalRankFusion(results_lists, final_k) ==
    LET ranked == RankedResults(results_lists)
        sorted_results == SortedResults(ranked)
        final_list == [i \in 1..Len(sorted_results) |-> ranked.doc[sorted_results[i]]]
    IN Truncate(final_list, final_k)

\* ------------------------------------------------- the document store
DocIds == {"d1"}

Atoms == {"a", "b"}

RECURSIVE SeqsUpTo(_, _)
SeqsUpTo(S, n) ==
    IF n = 0 THEN {<<>>}
    ELSE LET shorter == SeqsUpTo(S, n - 1)
         IN shorter \cup {Append(t, x) : t \in shorter, x \in S}

\* A text is a sequence of segments.  " " is white space; a text whose first
\* segment is "ERRO_" starts with that prefix.  The texts collected are the
\* runs of "a" with at most one "b" among them (equal and different chunks
\* both occur), white space alone or ahead of a segment, and the two texts
\* the collector stores when the extraction failed.
Bodies ==
    {t \in SeqsUpTo(Atoms, MaxTextLen) : Cardinality({i \in 1..Len(t) : t[i] = "b"}) <= 1}

Texts ==
    Bodies
    \cup {<<" ">>, <<" ", "a">>}
    \cup {<<"ERRO_">>, <<"Conteudo nao encontrado">>}

\* str.strip()
RECURSIVE StripLeft(_)
StripLeft(t) == IF t # <<>> /\ Head(t) = " " THEN StripLeft(Tail(t)) ELSE t

RECURSIVE StripRight(_)
StripRight(t) ==
    IF t # <<>> /\ t[Len(t)] = " " THEN StripRight(SubSeq(t, 1, Len(t) - 1)) ELSE t

Strip(t) == StripRight(StripLeft(t))

\* hashlib.sha256(text.encode('utf-8')).hexdigest(); no two texts collide
Sha256(t) == <<"sha256">> \o t

NoHash == <<>>

NullEmbedding == [kind |-> "null", of |-> <<>>]

\* the vector the provider returns for a text (EMBEDDING_MODEL_DIMENSION long)
Vector(t) == [kind |-> "vector", of |-> t]

NoChunkParams ==
    [present |-> FALSE, hash |-> NoHash, chunk_size |-> 0, chunk_overlap |-> 0, status |-> ""]

ChunkParams(hash, chunk_size, chunk_overlap, status) ==
    [present |-> TRUE, hash |-> hash, chunk_size |-> chunk_size,
     chunk_overlap |-> chunk_overlap, status |-> status]

\* a document as the collector inserts it
NewDocument(texto_completo) ==
    [texto_completo |-> texto_completo, chunk_params |-> NoChunkParams, texto_blocos |-> <<>>]

ErrorStatuses == {"ERRO_NO_CHUNKING", "ERRO_NA_COLETA", "TEXTO_VAZIO"}

NoStats ==
    [embeddings_gerados_sucesso |-> 0, falhas_geracao_embedding |-> 0,
     erros_salvamento_db |-> 0]

Op(kind, chunk_size, chunk_overlap) ==
    [kind |-> kind, chunk_size |-> chunk_size, chunk_overlap |-> chunk_overlap]

PassOver(chunk_size, chunk_overlap, untouched) ==
    [chunk_size |-> chunk_size, chunk_overlap |-> chunk_overlap, untouched |-> untouched]

NoSync == [db_ids |-> {}, current_run_ids |-> {}, applied |-> {}, delete_ok |-> TRUE]

NoChunkLog == [errors |-> {}, unrecorded |-> {}]

StoreIdle ==
    /\ portarias = <<>>
    /\ written = {}
    /\ stats = NoStats
    /\ lastOp = Op("none", 0, 0)
    /\ lastPassOver = PassOver(0, 0, {})
    /\ syncLog = NoSync
    /\ chunkLog = NoChunkLog
    /\ tick = 0

Infinity == <<>>

LoopIdle ==
    /\ loopPc = "idle"
    /\ attempt_main = 0
    /\ previous_pending_count_main = Infinity
    /\ current_pending_count_main = Infinity
    /\ consecutive_no_progress_count_main = 0
    /\ success_overall = FALSE
    /\ returned = FALSE
    /\ passAfter = <<>>
    /\ decreased = FALSE
    /\ stalled = 0

NoLog == [called |-> <<>>, queued |-> <<>>]

NoBulkWrite == [outcomes |-> <<>>, exception |-> "", attempts |-> 0]

NoCall == [exception |-> "", embedding |-> <<>>, attempts |-> 0]

TraceIdle ==
    /\ callPc = "idle"
    /\ callText = <<>>
    /\ callResponses = <<>>
    /\ callResult = NoCall
    /\ passPc = "idle"
    /\ passCalls = <<>>
    /\ passLog = NoLog
    /\ passDb = NoBulkWrite

\* The synchronisation, were it to leave the documents no longer extracted.
SyncedStoreKeepingOrphans(store, extracted, applied, delete_ok) ==
    IF DOMAIN extracted = {} THEN store
    ELSE [d \in DOMAIN store \cup applied |->
             IF d \in applied
             THEN IF d \in DOMAIN store
                  THEN [store[d] EXCEPT !.texto_completo = extracted[d]]
                  ELSE NewDocument(extracted[d])
             ELSE store[d]]

\* The synchronisation, were an extracted document to replace the stored
\* one instead of setting its collected fields.
SyncedStoreReplacingDocuments(store, extracted, applied, delete_ok) ==
    IF DOMAIN extracted = {} THEN store
    ELSE LET db_ids == DOMAIN store
             current_run_ids == DOMAIN extracted
             ids_to_remove == db_ids \ current_run_ids
             kept == (db_ids \cup applied) \ (IF delete_ok THEN ids_to_remove ELSE {})
         IN [d \in kept |->
                IF d \in applied THEN NewDocument(extracted[d]) ELSE store[d]]

\* The synchronisation, were it to run with nothing extracted as well.
SyncedStoreWithoutEmptinessTest(store, extracted, applied, delete_ok) ==
    LET db_ids == DOMAIN store
        current_run_ids == DOMAIN extracted
        ids_to_remove == db_ids \ current_run_ids
        kept == (db_ids \cup applied) \ (IF delete_ok THEN ids_to_remove ELSE {})
    IN [d \in kept |->
           IF d \in applied
           THEN IF d \in db_ids
                THEN [store[d] EXCEPT !.texto_completo = extracted[d]]
                ELSE NewDocument(extracted[d])
           ELSE store[d]]

\* navigate_and_sync_portarias, the synchronisation with the store.  With
\* nothing extracted the store is left alone.  Otherwise every extracted
\* document is inserted, or its collected fields are overwritten, by one
\* unordered bulk_write, of which the operations on the _ids in `applied`
\* take effect (all of them unless it raises); the documents stored before
\* and not extracted are then removed by delete_many, unless it raises.
SyncedStoreWith(store, extracted, applied, delete_ok) ==
    IF DOMAIN extracted = {} THEN store
    ELSE LET db_ids == DOMAIN store
             current_run_ids == DOMAIN extracted
             ids_to_remove == db_ids \ current_run_ids
             kept == (db_ids \cup applied) \ (IF delete_ok THEN ids_to_remove ELSE {})
         IN [d \in kept |->
                IF d \in applied
                THEN IF d \in db_ids
                     THEN [store[d] EXCEPT !.texto_completo = extracted[d]]
                     ELSE NewDocument(extracted[d])
                ELSE store[d]]

\* the run in which neither write raises
SyncedStore(store, extracted) ==
    SyncedStoreWith(store, extracted, DOMAIN extracted, TRUE)

\* ------------------------------------------- split_text_into_blocks
\* RecursiveCharacterTextSplitter.split_text: chunks of at most chunk_size
\* segments, each starting chunk_size - chunk_overlap after the one before.
RECURSIVE SplitFrom(_, _, _, _)
SplitFrom(text, start, chunk_size, chunk_overlap) ==
    LET end == Min(start + chunk_size - 1, Len(text))
    IN IF start > Len(text) THEN <<>>
       ELSE IF end = Len(text) THEN <<SubSeq(text, start, end)>>
       ELSE <<SubSeq(text, start, end)>>
            \o SplitFrom(text, start + chunk_size - chunk_overlap, chunk_size, chunk_overlap)

SplitText(text, chunk_size, chunk_overlap) == SplitFrom(text, 1, chunk_size, chunk_overlap)

\* The test of the sentinels, were it never to recognise one.
IsCollectionErrorNever(texto_completo) == FALSE

IsCollectionError(texto_completo) ==
    /\ texto_completo # <<>>
    /\ \/ Head(texto_completo) = "ERRO_"
       \/ texto_completo = <<"Conteudo nao encontrado">>

\* the find() query: texto_completo exists and is not ""
SelectedForChunking(doc) == doc.texto_completo # <<>>

NeedsReprocessingAlways(chunk_params, current_content_hash, chunk_size, chunk_overlap) == TRUE

NeedsReprocessingIgnoringStatus(chunk_params, current_content_hash, chunk_size, chunk_overlap) ==
    \/ ~chunk_params.present
    \/ chunk_params.hash # current_content_hash
    \/ chunk_params.chunk_size # chunk_size
    \/ chunk_params.chunk_overlap # chunk_overlap

NeedsReprocessing(chunk_params, current_content_hash, chunk_size, chunk_overlap) ==
    \/ ~chunk_params.present
    \/ chunk_params.hash # current_content_hash
    \/ chunk_params.chunk_size # chunk_size
    \/ chunk_params.chunk_overlap # chunk_overlap
    \/ chunk_params.status \in ErrorStatuses

\* old_block.get('embedding') is truthy
HasEmbedding(block) == block.embedding.kind \notin {"null", "empty"}

ExistingBlocksEmbeddingsAlways(doc, current_content_hash) ==
    LET old == doc.texto_blocos
        kept == {i \in 1..Len(old) : old[i].texto_hash # NoHash /\ HasEmbedding(old[i])}
    IN [h \in {old[i].texto_hash : i \in kept} |->
           old[CHOOSE i \in kept : old[i].texto_hash = h
                                   /\ \A j \in kept : old[j].texto_hash = h => j <= i].embedding]

\* existing_blocks_embeddings: texto_hash -> embedding of the old blocks,
\* loaded only when the stored content hash is the current one; a later
\* block with the same hash replaces an earlier one.
ExistingBlocksEmbeddings(doc, current_content_hash) ==
    IF doc.chunk_params.present /\ doc.chunk_params.hash = current_content_hash
    THEN LET old == doc.texto_blocos
             kept == {i \in 1..Len(old) : old[i].texto_hash # NoHash /\ HasEmbedding(old[i])}
         IN [h \in {old[i].texto_hash : i \in kept} |->
                old[CHOOSE i \in kept : old[i].texto_hash = h
                                        /\ \A j \in kept : old[j].texto_hash = h => j <= i].embedding]
    ELSE <<>>

\* The loop, were a new block to take an old embedding whatever its hash.
RECURSIVE NovosBlocosAnyHash(_, _, _)
NovosBlocosAnyHash(split_texts, existing, pos) ==
    IF pos > Len(split_texts) THEN <<>>
    ELSE LET texto == Strip(split_texts[pos])
             rest == NovosBlocosAnyHash(split_texts, existing, pos + 1)
         IN IF texto = <<>> THEN rest
            ELSE <<[texto |-> texto,
                    texto_hash |-> Sha256(texto),
                    embedding |-> IF DOMAIN existing # {}
                                  THEN existing[CHOOSE h \in DOMAIN existing : TRUE]
                                  ELSE NullEmbedding,
                    indice_bloco |-> pos - 1]>> \o rest

\* the loop over split_texts: empty segments are dropped, indice_bloco is
\* the zero-based position in split_texts
RECURSIVE NovosBlocos(_, _, _)
NovosBlocos(split_texts, existing, pos) ==
    IF pos > Len(split_texts) THEN <<>>
    ELSE LET texto == Strip(split_texts[pos])
             block_content_hash == Sha256(texto)
             rest == NovosBlocos(split_texts, existing, pos + 1)
         IN IF texto = <<>> THEN rest
            ELSE <<[texto |-> texto,
                    texto_hash |-> block_content_hash,
                    embedding |-> IF block_content_hash \in DOMAIN existing
                                  THEN existing[block_content_hash]
                                  ELSE NullEmbedding,
                    indice_bloco |-> pos - 1]>> \o rest

\* except Exception: the status is written by an update_one of its own,
\* and when that raises as well the failure is only logged
ChunkingError(doc, recorded) ==
    IF recorded
    THEN [doc |-> [doc EXCEPT !.chunk_params.present = TRUE,
                              !.chunk_params.status = "ERRO_NO_CHUNKING"],
          wrote |-> TRUE, raised |-> TRUE]
    ELSE [doc |-> doc, wrote |-> FALSE, raised |-> TRUE]

\* One document of the pass.  `fails` says that chunking it raises, and
\* `recorded` that the update_one of the except arm goes through.
\* Returns the document as the pass leaves it, whether an update_one was
\* applied and whether the except arm ran.
ProcessDocument(doc, chunk_size, chunk_overlap, fails, recorded) ==
    LET original == doc.texto_completo
        limpo == Strip(original)
        current_content_hash == Sha256(limpo)
    IN IF ~SelectedForChunking(doc) THEN [doc |-> doc, wrote |-> FALSE, raised |-> FALSE]
       ELSE IF IsCollectionError(original)
       THEN [doc |-> [doc EXCEPT !.texto_blocos = <<>>,
                                 !.chunk_params = ChunkParams(Sha256(original), chunk_size,
                                                              chunk_overlap, "ERRO_NA_COLETA")],
             wrote |-> TRUE, raised |-> FALSE]
       ELSE IF limpo = <<>>
       THEN [doc |-> [doc EXCEPT !.texto_blocos = <<>>,
                                 !.chunk_params = ChunkParams(Sha256(<<>>), chunk_size,
                                                              chunk_overlap, "TEXTO_VAZIO")],
             wrote |-> TRUE, raised |-> FALSE]
       ELSE IF ~NeedsReprocessing(doc.chunk_params, current_content_hash, chunk_size, chunk_overlap)
       THEN [doc |-> doc, wrote |-> FALSE, raised |-> FALSE]
       ELSE IF fails
       THEN ChunkingError(doc, recorded)
       ELSE [doc |-> [doc EXCEPT
                        !.texto_blocos =
                            NovosBlocos(SplitText(limpo, chunk_size, chunk_overlap),
                                        ExistingBlocksEmbeddings(doc, current_content_hash), 1),
                        !.chunk_params = ChunkParams(current_content_hash, chunk_size,
                                                     chunk_overlap, "PROCESSADO_OK")],
             wrote |-> TRUE, raised |-> FALSE]

\* ------------------------------------------- get_embedding_from_api
\* What one requests.post can meet: a vector of EMBEDDING_MODEL_DIMENSION
\* floats ("vector"), a vector of another length ("short"), a body without
\* 'data' ("malformed"), requests.Timeout, requests.HTTPError from
\* raise_for_status, requests.ConnectionError, and requests.TooManyRedirects,
\* a RequestException of none of the three classes.
ApiResponses == {"vector", "short", "malformed", "timeout", "http_error", "connection", "redirects"}

\* An embedding of another length than EMBEDDING_MODEL_DIMENSION.
ShortVector(texto) == [kind |-> "short", of |-> texto]

\* len(embedding): 1536 for a vector of the model, 512 for a short one
Dimension(embedding) ==
    CASE embedding.kind = "vector" -> EMBEDDING_MODEL_DIMENSION
      [] embedding.kind = "short" -> 512
      [] OTHER -> 0

CallRaises(exception) == [exception |-> exception, embedding |-> NullEmbedding]

CallReturns(embedding) == [exception |-> "", embedding |-> embedding]

\* The vector in the response body, whatever its length.
ResponseVector(text_to_embed, response) ==
    IF response = "short" THEN ShortVector(text_to_embed) ELSE Vector(text_to_embed)

\* The body of get_embedding_from_api, run once.
CallBodySkippingDimension(text_to_embed, response) ==
    IF text_to_embed = <<>> THEN CallRaises("EmbeddingProcessingError")
    ELSE CASE response = "timeout" -> CallRaises("Timeout")
           [] response = "connection" -> CallRaises("ConnectionError")
           [] response = "http_error" -> CallRaises("HTTPError")
           [] response = "redirects" -> CallRaises("TooManyRedirects")
           [] response = "malformed" -> CallRaises("EmbeddingProcessingError")
           [] OTHER -> CallReturns(ResponseVector(text_to_embed, response))

CallBody(text_to_embed, response) ==
    IF text_to_embed = <<>> THEN CallRaises("EmbeddingProcessingError")
    ELSE CASE response = "timeout" -> CallRaises("Timeout")
           [] response = "connection" -> CallRaises("ConnectionError")
           [] response = "http_error" -> CallRaises("HTTPError")
           [] response = "redirects" -> CallRaises("TooManyRedirects")
           [] response = "malformed" -> CallRaises("EmbeddingProcessingError")
           [] OTHER ->
               IF Dimension(ResponseVector(text_to_embed, response)) # EMBEDDING_MODEL_DIMENSION
               THEN CallRaises("EmbeddingProcessingError")
               ELSE CallReturns(ResponseVector(text_to_embed, response))

\* retry_if_exception_type of the decorator
ApiRetryTypes == {"HTTPError", "Timeout", "ConnectionError", "EmbeddingProcessingError"}

\* tenacity's @retry around the body: an exception of a listed type is
\* retried until stop_after_attempt, and RetryError is raised then; any
\* other exception leaves the call at once.  responses[n] is what the n-th
\* attempt meets.
RECURSIVE GetEmbeddingFromApiAt(_, _, _)
GetEmbeddingFromApiAt(text_to_embed, responses, attempt_number) ==
    LET outcome == CallBody(text_to_embed, responses[attempt_number])
        ended(result) == [exception |-> result.exception, embedding |-> result.embedding,
                          attempts |-> attempt_number]
    IN IF outcome.exception = "" THEN ended(outcome)
       ELSE IF outcome.exception \notin ApiRetryTypes THEN ended(outcome)
       ELSE IF attempt_number >= EMBEDDING_API_MAX_RETRIES THEN ended(CallRaises("RetryError"))
       ELSE GetEmbeddingFromApiAt(text_to_embed, responses, attempt_number + 1)

GetEmbeddingFromApi(text_to_embed, responses) ==
    GetEmbeddingFromApiAt(text_to_embed, responses, 1)

\* -------------------------------------- _execute_embedding_bulk_write
\* What one collection.bulk_write can meet.
DbOutcomes == {"ok", "PyMongoError"}

\* The body, run once: a PyMongoError is caught and DatabaseOperationError raised.
BulkWriteBody(outcome) ==
    IF outcome = "ok" THEN "" ELSE "DatabaseOperationError"

\* retry_if_exception_type of the decorator
DbRetryTypes == {"PyMongoError"}

\* tenacity's @retry around the body.  outcomes[n] is what the n-th
\* bulk_write meets.
RECURSIVE ExecuteEmbeddingBulkWriteAt(_, _)
ExecuteEmbeddingBulkWriteAt(outcomes, attempt_number) ==
    LET exception == BulkWriteBody(outcomes[attempt_number])
    IN IF exception = "" THEN [exception |-> "", attempts |-> attempt_number]
       ELSE IF exception \notin DbRetryTypes
       THEN [exception |-> exception, attempts |-> attempt_number]
       ELSE IF attempt_number >= EMBEDDING_DB_MAX_RETRIES
       THEN [exception |-> "RetryError", attempts |-> attempt_number]
       ELSE ExecuteEmbeddingBulkWriteAt(outcomes, attempt_number + 1)

ExecuteEmbeddingBulkWrite(outcomes) == ExecuteEmbeddingBulkWriteAt(outcomes, 1)

\* -------------------------------------- process_document_embeddings
\* isinstance(embedding, list) and len(embedding) == EMBEDDING_MODEL_DIMENSION
IsValidEmbedding(embedding) == embedding.kind = "vector"

\* the $or of the queries: embedding missing, null or of size 0
IsPendingEmbedding(embedding) == embedding.kind \in {"null", "empty"}

PendingBlock(block) ==
    /\ block.texto # <<>>
    /\ block.texto_hash # NoHash
    /\ IsPendingEmbedding(block.embedding)

\* the find() query of the pass
SelectedForEmbedding(doc) ==
    /\ doc.chunk_params.status \notin ErrorStatuses
    /\ \E i \in 1..Len(doc.texto_blocos) : PendingBlock(doc.texto_blocos[i])

RECURSIVE SetToSeq(_)
SetToSeq(S) ==
    IF S = {} THEN <<>>
    ELSE LET x == CHOOSE y \in S : TRUE
         IN <<x>> \o SetToSeq(S \ {x})

\* the blocks for which the pass calls the provider, in cursor order
BlocksToEmbed(doc_id, doc) ==
    LET blocos == doc.texto_blocos
        wanted(i) == /\ ~IsValidEmbedding(blocos[i].embedding)
                     /\ Strip(blocos[i].texto) # <<>>
                     /\ blocos[i].texto_hash # NoHash
    IN SelectSeq([i \in 1..Len(blocos) |-> <<doc_id, i>>], LAMBDA w : wanted(w[2]))

RECURSIVE WorkOfDocs(_, _)
WorkOfDocs(store, ids) ==
    IF ids = <<>> THEN <<>>
    ELSE (IF SelectedForEmbedding(store[Head(ids)])
          THEN BlocksToEmbed(Head(ids), store[Head(ids)])
          ELSE <<>>) \o WorkOfDocs(store, Tail(ids))

EmbeddingWork(store) == WorkOfDocs(store, SetToSeq(DOMAIN store))

\* UpdateOne({'_id': doc_id, 'texto_blocos.texto_hash': h},
\*           {'$set': {'texto_blocos.$.embedding': e}}):
\* the positional $ is the first array element that matches the filter.
ApplyUpdateOne(store, op) ==
    LET blocos == store[op.doc_id].texto_blocos
        matching == {i \in 1..Len(blocos) : blocos[i].texto_hash = op.texto_hash}
    IN IF matching = {} THEN store
       ELSE LET first == CHOOSE i \in matching : \A j \in matching : i <= j
            IN [store EXCEPT ![op.doc_id].texto_blocos[first].embedding = op.embedding]

RECURSIVE ApplyBulk(_, _)
ApplyBulk(store, ops) ==
    IF ops = <<>> THEN store ELSE ApplyBulk(ApplyUpdateOne(store, Head(ops)), Tail(ops))

\* _execute_embedding_bulk_write and its except arms: the batch is written,
\* or, when the write fails for good, dropped and counted.
Flush(run, db_ok) ==
    IF run.updates = <<>> THEN run
    ELSE IF db_ok
    THEN [run EXCEPT !.store = ApplyBulk(run.store, run.updates), !.updates = <<>>]
    ELSE [run EXCEPT !.stats.erros_salvamento_db = @ + Len(run.updates), !.updates = <<>>]

\* The loop over the blocks, were a provider failure to end it.
RECURSIVE EmbedBlocksAbortingOnFailure(_, _, _, _)
EmbedBlocksAbortingOnFailure(run, work, calls, db_ok) ==
    IF work = <<>> THEN run
    ELSE LET w == Head(work)
             bloco == run.read[w[1]].texto_blocos[w[2]]
             call == calls[w]
         IN IF call.exception # ""
            THEN [run EXCEPT !.stats.falhas_geracao_embedding = @ + 1,
                             !.called = Append(@, w)]
            ELSE EmbedBlocksAbortingOnFailure(
                     [run EXCEPT
                        !.called = Append(@, w),
                        !.queued = Append(@, w),
                        !.updates = Append(@, [doc_id |-> w[1],
                                               texto_hash |-> bloco.texto_hash,
                                               embedding |-> call.embedding]),
                        !.stats.embeddings_gerados_sucesso = @ + 1],
                     Tail(work), calls, db_ok)

\* The loop over the blocks.  calls[w] is how get_embedding_from_api ends
\* for block w: the vector it returns, or the exception it raises.
\* run.called and run.queued record the blocks the provider was called for
\* and those whose UpdateOne was appended.
RECURSIVE EmbedBlocks(_, _, _, _)
EmbedBlocks(run, work, calls, db_ok) ==
    IF work = <<>> THEN run
    ELSE LET w == Head(work)
             bloco == run.read[w[1]].texto_blocos[w[2]]
             call == calls[w]
             next ==
                 IF call.exception # ""
                 THEN [run EXCEPT !.stats.falhas_geracao_embedding = @ + 1,
                                  !.called = Append(@, w)]
                 ELSE LET queued ==
                              [run EXCEPT
                                 !.called = Append(@, w),
                                 !.queued = Append(@, w),
                                 !.updates = Append(@, [doc_id |-> w[1],
                                                        texto_hash |-> bloco.texto_hash,
                                                        embedding |-> call.embedding]),
                                 !.stats.embeddings_gerados_sucesso = @ + 1]
                      IN IF Len(queued.updates) >= MAX_EMBEDDING_BATCH_UPDATES
                         THEN Flush(queued, db_ok)
                         ELSE queued
         IN EmbedBlocks(next, Tail(work), calls, db_ok)

\* <<_id, index>> of every block of the store
AllBlocks(store) ==
    UNION {{<<d, i>> : i \in 1..Len(store[d].texto_blocos)} : d \in DOMAIN store}

\* get_embedding_from_api(texto_do_bloco) for every block of the work, when
\* the provider answers block w with responses[w]
CallsOf(store, work, responses) ==
    [w \in Range(work) |->
        GetEmbeddingFromApi(Strip(store[w[1]].texto_blocos[w[2]].texto), responses[w])]

\* the pass, given how each provider call ends and whether the bulk write
\* ends without an exception: the run when the loop and the final write are
\* over, with the store and the stats as the pass leaves them
EmbeddingPass(store, calls, db_ok) ==
    LET start == [store |-> store, read |-> store, updates |-> <<>>, stats |-> NoStats,
                  called |-> <<>>, queued |-> <<>>]
    IN Flush(EmbedBlocks(start, EmbeddingWork(store), calls, db_ok), db_ok)

\* The provider down for a block (every attempt times out) or answering at once.
SteadyResponses(response) == [n \in 1..EMBEDDING_API_MAX_RETRIES |-> response]

\* process_document_embeddings: the store after the pass and the stats, when
\* the provider is down for the blocks of api_fails and answers the others
ProcessDocumentEmbeddings(store, api_fails, db_ok) ==
    LET calls == [w \in AllBlocks(store) |->
                     GetEmbeddingFromApi(
                         Strip(store[w[1]].texto_blocos[w[2]].texto),
                         SteadyResponses(IF w \in api_fails THEN "timeout" ELSE "vector"))]
    IN EmbeddingPass(store, calls, db_ok)

\* get_pending_embeddings_count_agg
PendingCount(store) ==
    LET matched == {d \in DOMAIN store :
                       /\ store[d].chunk_params.status \notin ErrorStatuses
                       /\ \E i \in 1..Len(store[d].texto_blocos) :
                             IsPendingEmbedding(store[d].texto_blocos[i].embedding)}
        pendentes == {<<d, i>> \in UNION {{<<d, i>> : i \in 1..Len(store[d].texto_blocos)} : d \in matched} :
                         PendingBlock(store[d].texto_blocos[i])}
    IN Cardinality(pendentes)

\* ------------------------------------------------------- SpecFusion
\* A ranked list as a search returns it: distinct ids, scores descending.
RankedLists ==
    {[i \in 1..Len(s) |-> Item(s[i], NumChunks + 1 - i)] : s \in DistinctSeqs(ChunkIds, NumChunks)}

NoQuery ==
    [search_type |-> "", strategy |-> "", max_k |-> 0, result |-> <<>>,
     raised |-> FALSE, seen |-> <<>>]

IndexIdle ==
    /\ collection = <<>>
    /\ initPc = "start"
    /\ remaining = <<>>
    /\ bm25_indices = <<>>
    /\ doc_store_by_strategy = <<>>
    /\ chatbot_instance = FALSE
    /\ snapshot = <<>>
    /\ ixQuery = NoQuery

SplitIdle ==
    /\ splitPc = "input"
    /\ splitText = <<>>
    /\ splitStrategy = 1
    /\ splitClient = TRUE
    /\ splitRuns = <<>>

NoRequest ==
    [endpoint |-> "", session_id |-> "", history_length |-> 0, turn |-> 0,
     tokens |-> 0, resposta |-> "", raised |-> FALSE]

HistoryIdle ==
    /\ historico = <<>>
    /\ requests = 0
    /\ turns = <<>>
    /\ latest = <<>>
    /\ lastReq = NoRequest

ProjetoIdle == IndexIdle /\ SplitIdle /\ HistoryIdle

BatchIdle ==
    /\ batchPc = "loop"
    /\ blocksLeft = 0
    /\ all_updates_for_bulk = <<>>
    /\ generated = 0
    /\ bulk_writes = <<>>
    /\ erros_salvamento_db = 0

SemChamada == [ok |-> FALSE, called |-> FALSE, documentos_ranqueados |-> <<>>]

NoKey == <<>>

Fase1Idle ==
    /\ arquivo = <<>>
    /\ recuperacoes_ja_feitas = {}
    /\ f1Pc = "stopped"
    /\ f1Pos = 1
    /\ f1Runs = 0
    /\ escritas = 0
    /\ apiRetorno = <<>>
    /\ ultimaChamada = NoKey

LoteIdle ==
    /\ etlPc = "idle"
    /\ lotes = <<>>
    /\ lote = 0
    /\ all_chunks_ids = <<>>
    /\ all_chunks_texts = <<>>
    /\ all_chunks_metadatas = <<>>
    /\ all_embeddings = <<>>
    /\ embJ = 0
    /\ colecao = {}
    /\ overall_success = TRUE
    /\ gerados = {}
    /\ falhaEm = 0

ScriptIdle == Fase1Idle /\ LoteIdle

JobIdle == BatchIdle /\ ScriptIdle

FusionIdle ==
    /\ rrfPc = "input"
    /\ rrfLists = <<<<>>, <<>>>>
    /\ rrfFinalK = 1
    /\ rrfScore = <<>>
    /\ rrfOut = <<>>
    /\ rrfSwapped = <<>>

NoDense == [embedOk |-> TRUE, raises |-> FALSE, ranking |-> <<>>]

NoSparse == [scores |-> <<>>, order |-> <<>>, raises |-> FALSE]

RetrievalIdle ==
    /\ qPc = "idle"
    /\ qMode = "vetorial"
    /\ qMaxK = 1
    /\ qCollection = TRUE
    /\ qDense = NoDense
    /\ qSparse = NoSparse
    /\ qRan = {}
    /\ qResult = <<>>
    /\ qRaised = FALSE

InitFusion ==
    /\ RetrievalIdle /\ JobIdle /\ ProjetoIdle
    /\ StoreIdle
    /\ LoopIdle
    /\ TraceIdle
    /\ rrfPc = "input"
    /\ rrfLists \in RankedLists \X RankedLists
    /\ rrfFinalK \in 1..MaxK
    /\ rrfScore = <<>>
    /\ rrfOut = <<>>
    /\ rrfSwapped = <<>>

Fuse ==
    /\ rrfPc = "input"
    /\ rrfPc' = "done"
    /\ rrfScore' = RankedResults(rrfLists).score
    /\ rrfOut' = ReciprocalRankFusion(rrfLists, rrfFinalK)
    /\ rrfSwapped' = ReciprocalRankFusion(<<rrfLists[2], rrfLists[1]>>, rrfFinalK)
    /\ UNCHANGED <<rrfLists, rrfFinalK>>
    /\ UNCHANGED <<jobVars, projetoVars, retrievalVars, storeVars, loopVars, traceVars>>

NextFusion == Fuse

SpecFusion == InitFusion /\ [][NextFusion]_vars

\* ---------------------------------------------------- SpecRetrieval
\* Outcome of a search: the list it returns, or an exception.
Returned(list) == [result |-> list, raised |-> FALSE]

Raised == [result |-> <<>>, raised |-> TRUE]

\* collection.query(n_results=top_k, where=...): the n_results nearest chunks
\* of the strategy, nearest first; _format_chroma_results gives each
\* score = 1 - distance.  The i-th hit is taken at distance i - 1.
FormatChromaResults(ranking, top_k) ==
    [i \in 1..Min(top_k, Len(ranking)) |-> Item(ranking[i], 1 - (i - 1))]

ExecutarBuscaVetorialRaising(dense, top_k) ==
    IF ~dense.embedOk \/ dense.raises THEN Raised
    ELSE Returned(FormatChromaResults(dense.ranking, top_k))

\* _gerar_embedding returns None when the provider fails, and the search
\* then returns []; collection.query itself may raise.
ExecutarBuscaVetorial(dense, top_k) ==
    IF ~dense.embedOk THEN Returned(<<>>)
    ELSE IF dense.raises THEN Raised
    ELSE Returned(FormatChromaResults(dense.ranking, top_k))

\* np.argsort(doc_scores)[-top_k:][::-1], top_k >= 1
TopIndices(order, top_k) ==
    LET n == Len(order)
        kept == Min(top_k, n)
    IN [i \in 1..kept |-> order[n + 1 - i]]

\* The loop over top_indices, were it to skip negative scores only.
RECURSIVE FinalResultsKeepingZero(_, _, _)
FinalResultsKeepingZero(top_indices, doc_scores, pos) ==
    IF pos > Len(top_indices) THEN <<>>
    ELSE LET i == top_indices[pos]
             rest == FinalResultsKeepingZero(top_indices, doc_scores, pos + 1)
         IN IF doc_scores[i] < 0 THEN rest
            ELSE <<Item(i, doc_scores[i])>> \o rest

\* the loop over top_indices: candidates with doc_scores[i] <= 0 are skipped
RECURSIVE FinalResults(_, _, _)
FinalResults(top_indices, doc_scores, pos) ==
    IF pos > Len(top_indices) THEN <<>>
    ELSE LET i == top_indices[pos]
             rest == FinalResults(top_indices, doc_scores, pos + 1)
         IN IF doc_scores[i] <= 0 THEN rest
            ELSE <<Item(i, doc_scores[i])>> \o rest

\* An empty scores sequence stands for a strategy without BM25 index or
\* document store.
ExecutarBuscaTextual(sparse, top_k) ==
    IF sparse.scores = <<>> THEN Returned(<<>>)
    ELSE IF sparse.raises THEN Raised
    ELSE Returned(FinalResults(TopIndices(sparse.order, top_k), sparse.scores, 1))

HybridSearchAbortOnError(dense, sparse, max_k) ==
    LET v == ExecutarBuscaVetorial(dense, max_k)
        t == ExecutarBuscaTextual(sparse, max_k)
    IN IF v.raised THEN [result |-> <<>>, raised |-> TRUE, ran |-> {"dense"}]
       ELSE IF t.raised THEN [result |-> <<>>, raised |-> TRUE, ran |-> {"dense", "sparse"}]
       ELSE [result |-> ReciprocalRankFusion(<<v.result, t.result>>, max_k),
             raised |-> FALSE, ran |-> {"dense", "sparse"}]

\* the hibrida arm: each search in its own try/except, then the fusion
HybridSearch(dense, sparse, max_k) ==
    LET v == ExecutarBuscaVetorial(dense, max_k)
        t == ExecutarBuscaTextual(sparse, max_k)
        vector_results == IF v.raised THEN <<>> ELSE v.result
        textual_results == IF t.raised THEN <<>> ELSE t.result
    IN [result |-> IF vector_results = <<>> /\ textual_results = <<>>
                   THEN <<>>
                   ELSE ReciprocalRankFusion(<<vector_results, textual_results>>, max_k),
        raised |-> FALSE,
        ran |-> {"dense", "sparse"}]

DenseOnly(dense, max_k) ==
    LET v == ExecutarBuscaVetorial(dense, max_k)
    IN [result |-> v.result, raised |-> v.raised, ran |-> {"dense"}]

SparseOnly(sparse, max_k) ==
    LET t == ExecutarBuscaTextual(sparse, max_k)
    IN [result |-> t.result, raised |-> t.raised, ran |-> {"sparse"}]

\* The dispatch, were its last arm the fusion instead of the dense search.
BuscarDocumentosChromaElseHybrid(search_type, max_k, dense, sparse) ==
    IF search_type = "vetorial" THEN DenseOnly(dense, max_k)
    ELSE IF search_type = "textual" THEN SparseOnly(sparse, max_k)
    ELSE HybridSearch(dense, sparse, max_k)

BuscarDocumentosChroma(search_type, max_k, dense, sparse) ==
    IF search_type = "vetorial" THEN DenseOnly(dense, max_k)
    ELSE IF search_type = "textual" THEN SparseOnly(sparse, max_k)
    ELSE IF search_type = "hibrida" THEN HybridSearch(dense, sparse, max_k)
    ELSE DenseOnly(dense, max_k)

\* What the dense side can meet.
DenseInputs ==
    {[embedOk |-> TRUE, raises |-> FALSE, ranking |-> r] : r \in DistinctSeqs(CorpusIds, CorpusSize)}
    \cup {[embedOk |-> FALSE, raises |-> FALSE, ranking |-> <<>>],
          [embedOk |-> TRUE, raises |-> TRUE, ranking |-> <<>>]}

\* argsort returns a permutation that lists the scores in ascending order;
\* how it orders equal scores is not specified.
ArgSorts(scores) ==
    {p \in DistinctSeqs(1..Len(scores), Len(scores)) :
        /\ Len(p) = Len(scores)
        /\ \A i \in 1..(Len(p) - 1) : scores[p[i]] <= scores[p[i + 1]]}

ScoreSeqs == UNION {[1..n -> (0 - 1)..MaxScore] : n \in 0..CorpusSize}

\* What the sparse side can meet: an index over Len(sc) chunks that scores
\* them sc, or one whose scoring raises.
SparseInputsFor(sc) ==
    {[scores |-> sc, order |-> p, raises |-> FALSE] : p \in ArgSorts(sc)}
    \cup (IF Len(sc) = 1 /\ sc[1] = 1
          THEN {[scores |-> sc, order |-> <<>>, raises |-> TRUE]}
          ELSE {})

SparseInputs == UNION {SparseInputsFor(sc) : sc \in ScoreSeqs}

Busca(search_type, max_k, dense, sparse) ==
    LET out == BuscarDocumentosChroma(search_type, max_k, dense, sparse)
    IN /\ qPc = "idle"
       /\ qPc' = "done"
       /\ qMode' = search_type
       /\ qMaxK' = max_k
       /\ qCollection' = TRUE
       /\ qDense' = dense
       /\ qSparse' = sparse
       /\ qRan' = out.ran
       /\ qResult' = out.result
       /\ qRaised' = out.raised
       /\ UNCHANGED <<jobVars, projetoVars, fusionVars, storeVars, loopVars, traceVars>>

\* self.collections holds no collection for the embedding model
BuscaSemColecao ==
    /\ qPc = "idle"
    /\ \E search_type \in {"vetorial", "textual", "hibrida"} : \E max_k \in 1..MaxK :
          /\ qMode' = search_type
          /\ qMaxK' = max_k
    /\ qPc' = "done"
    /\ qCollection' = FALSE
    /\ qDense' = NoDense
    /\ qSparse' = NoSparse
    /\ qRan' = {}
    /\ qResult' = <<>>
    /\ qRaised' = FALSE
    /\ UNCHANGED <<jobVars, projetoVars, fusionVars, storeVars, loopVars, traceVars>>

BuscaVetorial ==
    \E max_k \in 1..MaxK : \E dense \in DenseInputs :
        Busca("vetorial", max_k, dense, NoSparse)

BuscaTextual ==
    \E sparse \in SparseInputs : \E max_k \in 1..MaxK :
        Busca("textual", max_k, NoDense, sparse)

BuscaHibrida ==
    \E sparse \in SparseInputs : \E dense \in DenseInputs : \E max_k \in 1..MaxK :
        Busca("hibrida", max_k, dense, sparse)

BuscaDesconhecida ==
    \E max_k \in 1..MaxK : \E dense \in DenseInputs :
        Busca("outro", max_k, dense, NoSparse)

InitRetrieval == FusionIdle /\ RetrievalIdle /\ JobIdle /\ ProjetoIdle /\ StoreIdle /\ LoopIdle /\ TraceIdle

NextRetrieval ==
    \/ BuscaSemColecao
    \/ BuscaVetorial
    \/ BuscaTextual
    \/ BuscaHibrida
    \/ BuscaDesconhecida

SpecRetrieval == InitRetrieval /\ [][NextRetrieval]_vars

\* -------------------------------------------------------- SpecIndex
\* ChatbotMPES.__init__ builds one BM25 index and one document store per
\* chunking strategy from the Chroma collection; the queries then read them.
\* the members of ChunkingStrategy, in the order the loop of __init__ visits them
ChunkingStrategy ==
    <<"recursive_1000_200", "recursive_500_100",
      "semantic_percentile_75", "semantic_percentile_95">>

\* The tags drawn for the chunks of a collection.
DrawnTags == {"recursive_1000_200", "semantic_percentile_95"}

CollectionIds == [i \in 1..CorpusSize |-> i]

\* main_collection.get(where={"chunking_strategy": strategy_name}): the ids
\* of the chunks that carry the tag, in the collection's order
CollectionGet(coll, strategy_name) ==
    SelectSeq(CollectionIds, LAMBDA id : coll[id] = strategy_name)

\* an entry of doc_store_list; it has no "score" key
StoredDoc(doc_id) == [_id |-> doc_id]

DocStoreList(ids) == [i \in 1..Len(ids) |-> StoredDoc(ids[i])]

\* The query, were the where filter not handed to Chroma.
WhereIgnored(coll, nearest, strategy) == nearest

\* collection.query(where={"chunking_strategy": strategy.value}): of the
\* chunks of the collection, nearest first, those that carry the tag
Where(coll, nearest, strategy) ==
    SelectSeq(nearest, LAMBDA id : coll[id] = strategy)

\* doc = doc_store[i].copy(); doc['score'] = doc_scores[i]
CopyWithScore(doc, score) == Item(doc._id, score)

\* The sparse search, were it to write the score into the stored dict.
ExecutarBuscaTextualNoCopy(indices, stores, strategy_name, sparse, top_k) ==
    IF strategy_name \notin DOMAIN indices \/ strategy_name \notin DOMAIN stores
    THEN [result |-> <<>>, raised |-> FALSE, stores |-> stores]
    ELSE LET t == ExecutarBuscaTextual(sparse, top_k)
             doc_store == stores[strategy_name]
             hit(i) == {h \in 1..Len(t.result) : t.result[h]._id = i}
         IN [result |-> [h \in 1..Len(t.result) |->
                            CopyWithScore(doc_store[t.result[h]._id], t.result[h].score)],
             raised |-> t.raised,
             stores |-> [stores EXCEPT ![strategy_name] =
                            [i \in 1..Len(doc_store) |->
                                IF hit(i) = {} THEN doc_store[i]
                                ELSE CopyWithScore(doc_store[i], sparse.scores[i])]]]

\* _executar_busca_textual over the index and the document store of the
\* strategy: ExecutarBuscaTextual gives the hits by their position in the
\* store, each is a copy of the stored dict with the score added
ExecutarBuscaTextualEm(indices, stores, strategy_name, sparse, top_k) ==
    IF strategy_name \notin DOMAIN indices \/ strategy_name \notin DOMAIN stores
    THEN [result |-> <<>>, raised |-> FALSE, stores |-> stores]
    ELSE LET t == ExecutarBuscaTextual(sparse, top_k)
             doc_store == stores[strategy_name]
         IN [result |-> [h \in 1..Len(t.result) |->
                            CopyWithScore(doc_store[t.result[h]._id], t.result[h].score)],
             raised |-> t.raised,
             stores |-> stores]

\* _buscar_documentos_chroma for one strategy; self.collections holds the
\* collection whenever __init__ has returned
BuscarNaEstrategia(coll, indices, stores, search_type, max_k, strategy, dense, sparse) ==
    LET filtered == [dense EXCEPT !.ranking = Where(coll, dense.ranking, strategy)]
        v == ExecutarBuscaVetorial(filtered, max_k)
        t == ExecutarBuscaTextualEm(indices, stores, strategy, sparse, max_k)
        vector_results == IF v.raised THEN <<>> ELSE v.result
        textual_results == IF t.raised THEN <<>> ELSE t.result
    IN IF search_type = "textual"
       THEN [result |-> t.result, raised |-> t.raised, stores |-> t.stores]
       ELSE IF search_type = "hibrida"
       THEN [result |-> IF vector_results = <<>> /\ textual_results = <<>>
                        THEN <<>>
                        ELSE ReciprocalRankFusion(<<vector_results, textual_results>>, max_k),
             raised |-> FALSE,
             stores |-> t.stores]
       ELSE [result |-> v.result, raised |-> v.raised, stores |-> stores]

\* What Chroma's nearest-neighbour order over the whole collection can be.
NearestOrders == {r \in DistinctSeqs(1..CorpusSize, CorpusSize) : Len(r) = CorpusSize}

IndexDenseInputs ==
    {[embedOk |-> TRUE, raises |-> FALSE, ranking |-> r] : r \in NearestOrders}
    \cup {[embedOk |-> FALSE, raises |-> FALSE, ranking |-> <<>>],
          [embedOk |-> TRUE, raises |-> TRUE, ranking |-> <<>>]}

\* What get_scores can give over a corpus of n chunks: 0 for a chunk that
\* shares no token with the question, 1 for one that does.
IndexSparseInputs(n) ==
    UNION {{[scores |-> sc, order |-> p, raises |-> FALSE] : p \in ArgSorts(sc)} :
              sc \in [1..n -> {0, 1}]}

InitIndex ==
    /\ FusionIdle /\ RetrievalIdle /\ JobIdle /\ StoreIdle /\ LoopIdle /\ TraceIdle /\ SplitIdle /\ HistoryIdle
    /\ collection \in [1..CorpusSize -> DrawnTags]
    /\ initPc = "start"
    /\ remaining = <<>>
    /\ bm25_indices = <<>>
    /\ doc_store_by_strategy = <<>>
    /\ chatbot_instance = FALSE
    /\ snapshot = <<>>
    /\ ixQuery = NoQuery

\* get_collection for the one embedding model; without a collection
\* __init__ raises RuntimeError
ConnectCollections ==
    /\ initPc = "start"
    /\ \E connected \in BOOLEAN :
          IF connected
          THEN initPc' = "indexing" /\ remaining' = ChunkingStrategy
          ELSE initPc' = "failed" /\ remaining' = <<>>
    /\ UNCHANGED <<collection, bm25_indices, doc_store_by_strategy, chatbot_instance,
                   snapshot, ixQuery>>
    /\ UNCHANGED <<jobVars, fusionVars, retrievalVars, storeVars, loopVars, traceVars, splitVars, historyVars>>

\* one turn of the loop over ChunkingStrategy; an exception of
\* main_collection.get ends __init__
BuildBm25Index ==
    /\ initPc = "indexing"
    /\ remaining # <<>>
    /\ LET strategy_name == Head(remaining)
           ids == CollectionGet(collection, strategy_name)
       IN \E get_ok \in BOOLEAN :
             IF ~get_ok
             THEN /\ initPc' = "failed"
                  /\ UNCHANGED <<remaining, bm25_indices, doc_store_by_strategy>>
             ELSE /\ initPc' = "indexing"
                  /\ remaining' = Tail(remaining)
                  /\ IF ids = <<>>
                     THEN UNCHANGED <<bm25_indices, doc_store_by_strategy>>
                     ELSE /\ bm25_indices' = bm25_indices @@ (strategy_name :> ids)
                          /\ doc_store_by_strategy' =
                                doc_store_by_strategy @@ (strategy_name :> DocStoreList(ids))
    /\ UNCHANGED <<collection, chatbot_instance, snapshot, ixQuery>>
    /\ UNCHANGED <<jobVars, fusionVars, retrievalVars, storeVars, loopVars, traceVars, splitVars, historyVars>>

\* __init__ returns and lifespan assigns chatbot_instance
Lifespan ==
    /\ initPc = "indexing"
    /\ remaining = <<>>
    /\ initPc' = "ready"
    /\ chatbot_instance' = TRUE
    /\ snapshot' = <<bm25_indices, doc_store_by_strategy>>
    /\ UNCHANGED <<collection, remaining, bm25_indices, doc_store_by_strategy, ixQuery>>
    /\ UNCHANGED <<jobVars, fusionVars, retrievalVars, storeVars, loopVars, traceVars, splitVars, historyVars>>

\* a request served by the instance: one call of _buscar_documentos_chroma
Consulta(search_type) ==
    /\ chatbot_instance
    /\ \E i \in 1..Len(ChunkingStrategy) : \E max_k \in 1..MaxK :
       \E dense \in IF search_type = "textual" THEN {NoDense} ELSE IndexDenseInputs :
          LET strategy == ChunkingStrategy[i]
              n == IF strategy \in DOMAIN bm25_indices
                   THEN Len(bm25_indices[strategy]) ELSE 0
          IN \E sparse \in IF search_type = "vetorial" \/ n = 0
                           THEN {NoSparse} ELSE IndexSparseInputs(n) :
                LET out == BuscarNaEstrategia(collection, bm25_indices,
                                              doc_store_by_strategy, search_type,
                                              max_k, strategy, dense, sparse)
                IN /\ ixQuery' = [search_type |-> search_type, strategy |-> strategy,
                                  max_k |-> max_k, result |-> out.result,
                                  raised |-> out.raised,
                                  seen |-> <<bm25_indices, doc_store_by_strategy>>]
                   /\ doc_store_by_strategy' = out.stores
    /\ UNCHANGED <<collection, initPc, remaining, bm25_indices, chatbot_instance, snapshot>>
    /\ UNCHANGED <<jobVars, fusionVars, retrievalVars, storeVars, loopVars, traceVars, splitVars, historyVars>>

ConsultaVetorial == Consulta("vetorial")

ConsultaTextual == Consulta("textual")

ConsultaHibrida == Consulta("hibrida")

NextIndex ==
    \/ ConnectCollections
    \/ BuildBm25Index
    \/ Lifespan
    \/ ConsultaVetorial
    \/ ConsultaTextual
    \/ ConsultaHibrida

SpecIndex == InitIndex /\ [][NextIndex]_vars

\* -------------------------------------------------------- SpecSplit
\* The chunking of etl.py.  A text is a sequence of sentences; sizes are
\* counted in sentences: the 1000 characters of the first strategy are two,
\* the 500 of the second one, and an overlap of 200 or 100 characters is
\* less than one.
CHUNKING_STRATEGIES ==
    <<[name |-> "recursive_1000_200", function |-> "split_by_recursive_char",
       chunk_size |-> 2, chunk_overlap |-> 0],
      [name |-> "recursive_500_100", function |-> "split_by_recursive_char",
       chunk_size |-> 1, chunk_overlap |-> 0],
      [name |-> "semantic_percentile_75", function |-> "split_by_semantic",
       chunk_size |-> 0, chunk_overlap |-> 0],
      [name |-> "semantic_percentile_95", function |-> "split_by_semantic",
       chunk_size |-> 0, chunk_overlap |-> 0]>>

split_by_recursive_char(text, params) ==
    SplitText(text, params.chunk_size, params.chunk_overlap)

\* What the embedding provider does during one SemanticChunker.split_text:
\* it raises, or it answers, and the distances between the embeddings of
\* neighbouring sentences put a breakpoint after the sentences in breaks.
ProviderOutcomes(text) ==
    {[raises |-> TRUE, breaks |-> {}]}
    \cup {[raises |-> FALSE, breaks |-> b] : b \in SUBSET (1..(Len(text) - 1))}

\* the sentences from position start on, cut after every breakpoint
RECURSIVE CutFrom(_, _, _)
CutFrom(text, breaks, start) ==
    IF start > Len(text) THEN <<>>
    ELSE LET later == {b \in breaks : b >= start}
             end == IF later = {} THEN Len(text)
                    ELSE CHOOSE b \in later : \A c \in later : b <= c
         IN <<SubSeq(text, start, end)>> \o CutFrom(text, breaks, end + 1)

\* SemanticChunker.split_text: a text of one sentence is returned as it is,
\* without a call of the provider
SemanticChunkerSplit(text, provider) ==
    IF Len(text) = 1 THEN [raised |-> FALSE, chunks |-> <<text>>]
    ELSE IF provider.raises THEN [raised |-> TRUE, chunks |-> <<>>]
    ELSE [raised |-> FALSE, chunks |-> CutFrom(text, provider.breaks, 1)]

split_by_semantic(text, params, langchain_embeddings, provider) ==
    IF ~langchain_embeddings THEN <<>>
    ELSE LET split == SemanticChunkerSplit(text, provider)
         IN IF split.raised THEN <<text>> ELSE split.chunks

InitialChunks(texto, strategy, langchain_embeddings, provider) ==
    IF strategy.function = "split_by_semantic"
    THEN split_by_semantic(texto, strategy, langchain_embeddings, provider)
    ELSE split_by_recursive_char(texto, strategy)

\* the loop over initial_chunks: a chunk of more than max_tokens tokens is
\* split again, by tokens
RECURSIVE FinalChunks(_, _)
FinalChunks(initial_chunks, max_tokens) ==
    IF initial_chunks = <<>> THEN <<>>
    ELSE LET chunk == Head(initial_chunks)
             sub_chunks == IF Len(chunk) > max_tokens
                           THEN SplitText(chunk, max_tokens, max_tokens \div 10)
                           ELSE <<chunk>>
         IN sub_chunks \o FinalChunks(Tail(initial_chunks), max_tokens)

\* chunk_id = f"{doc['link_texto_completo']}|{strategy['name']}|{model_name}|{j}"
AllChunksIds(link, strategy, model_name, final_chunks) ==
    [j \in 1..Len(final_chunks) |-> <<link, strategy.name, model_name, j - 1>>]

\* one turn of the loop over CHUNKING_STRATEGIES for one document
ChunkRun(texto, strategy, langchain_embeddings, provider) ==
    LET initial_chunks == InitialChunks(texto, strategy, langchain_embeddings, provider)
        final_chunks == FinalChunks(initial_chunks, MaxTokens)
    IN [provider |-> provider,
        initial_chunks |-> initial_chunks,
        all_chunks_texts |-> final_chunks,
        all_chunks_ids |-> AllChunksIds("link", strategy, "text-embedding-3-small",
                                        final_chunks)]

\* the texts chunked: 'if not texto: continue' keeps the empty text out
SplitTexts == SeqsUpTo(Atoms, MaxTextLen) \ {<<>>}

InitSplit ==
    /\ FusionIdle /\ RetrievalIdle /\ JobIdle /\ StoreIdle /\ LoopIdle /\ TraceIdle /\ IndexIdle /\ HistoryIdle
    /\ splitPc = "input"
    /\ splitText \in SplitTexts
    /\ splitStrategy \in 1..Len(CHUNKING_STRATEGIES)
    /\ splitClient \in BOOLEAN
    /\ splitRuns = <<>>

Chunk(from, to) ==
    /\ splitPc = from
    /\ splitPc' = to
    /\ \E provider \in ProviderOutcomes(splitText) :
          splitRuns' = Append(splitRuns,
                              ChunkRun(splitText, CHUNKING_STRATEGIES[splitStrategy],
                                       splitClient, provider))
    /\ UNCHANGED <<splitText, splitStrategy, splitClient>>
    /\ UNCHANGED <<jobVars, fusionVars, retrievalVars, storeVars, loopVars, traceVars, indexVars, historyVars>>

\* a run of the pipeline over the document
ChunkDocument == Chunk("input", "once")

\* a later run over the same document with the same strategy
ChunkDocumentAgain == Chunk("once", "twice")

NextSplit == ChunkDocument \/ ChunkDocumentAgain

SpecSplit == InitSplit /\ [][NextSplit]_vars

\* ------------------------------------------------------ SpecHistory
\* The session histories of ChatbotMPES.  The two endpoints that use them
\* are coroutines without an await in their body: the event loop runs each
\* handler to its end before it starts the next.
Sessions == {"s1", "s2"}

\* the last n elements of a sequence
LastN(items, n) ==
    IF Len(items) <= n THEN items ELSE SubSeq(items, Len(items) - n + 1, Len(items))

\* deque(iterable, maxlen=max_len), a new object: it keeps the last max_len
\* elements
Deque(obj, iterable, max_len) ==
    [obj |-> obj, maxlen |-> max_len, items |-> LastN(iterable, max_len)]

\* The append, were a full deque to refuse the new element.
DequeAppendKeepingOldest(d, x) ==
    IF Len(d.items) >= d.maxlen THEN d ELSE [d EXCEPT !.items = Append(@, x)]

\* deque.append: a full deque drops its oldest element
DequeAppend(d, x) == [d EXCEPT !.items = LastN(Append(@, x), d.maxlen)]

\* _get_or_create_history; obj is the identity a deque built here gets
GetOrCreateHistory(hist, session_id, max_len, obj) ==
    IF session_id \notin DOMAIN hist
    THEN hist @@ (session_id :> Deque(obj, <<>>, max_len))
    ELSE IF hist[session_id].maxlen # max_len
    THEN [hist EXCEPT ![session_id] = Deque(obj, hist[session_id].items, max_len)]
    ELSE hist

\* responder, were the turn appended whatever the generation returned.
ResponderAppendingAlways(hist, session_id, history_length, turn, outcome) ==
    LET got == GetOrCreateHistory(hist, session_id, history_length, turn)
    IN IF outcome.search_raises THEN got
       ELSE [got EXCEPT ![session_id] = DequeAppend(@, turn)]

\* responder: the search may raise, which ends the call before the
\* generation; the turn is appended when tokens > 0
Responder(hist, session_id, history_length, turn, outcome) ==
    LET got == GetOrCreateHistory(hist, session_id, history_length, turn)
    IN IF outcome.search_raises \/ outcome.tokens = 0 THEN got
       ELSE [got EXCEPT ![session_id] = DequeAppend(@, turn)]

\* gerar_resposta_endpoint: reads the history, appends nothing
GerarResposta(hist, session_id, history_length, turn, outcome) ==
    GetOrCreateHistory(hist, session_id, history_length, turn)

\* _gerar_resposta: the chat API raises and the apology is returned with 0
\* tokens, or it answers, and the tokens are resp.usage.total_tokens, or 0
\* when the response carries no usage
GeracaoOutcomes ==
    {[search_raises |-> FALSE, tokens |-> 0, resposta |-> "apology"],
     [search_raises |-> FALSE, tokens |-> 0, resposta |-> "answer"],
     [search_raises |-> FALSE, tokens |-> 1, resposta |-> "answer"]}

\* how the search and the generation of a request end
ResponderOutcomes ==
    {[search_raises |-> TRUE, tokens |-> 0, resposta |-> ""]} \cup GeracaoOutcomes

GerarRespostaOutcomes == GeracaoOutcomes

\* the instance as __init__ leaves it over an empty collection
InitHistory ==
    /\ FusionIdle /\ RetrievalIdle /\ JobIdle /\ StoreIdle /\ LoopIdle /\ TraceIdle /\ SplitIdle
    /\ collection = <<>>
    /\ initPc = "ready"
    /\ remaining = <<>>
    /\ bm25_indices = <<>>
    /\ doc_store_by_strategy = <<>>
    /\ chatbot_instance = TRUE
    /\ snapshot = <<<<>>, <<>>>>
    /\ ixQuery = NoQuery
    /\ historico = <<>>
    /\ requests = 0
    /\ turns = <<>>
    /\ latest = <<>>
    /\ lastReq = NoRequest

Handle(endpoint, session_id, history_length, outcome) ==
    LET turn == requests + 1
        recorded == endpoint = "responder" /\ outcome.tokens > 0
        before == IF session_id \in DOMAIN turns THEN turns[session_id] ELSE <<>>
    IN /\ chatbot_instance
       /\ requests < MaxRequests
       /\ requests' = turn
       /\ historico' = IF endpoint = "responder"
                       THEN Responder(historico, session_id, history_length, turn, outcome)
                       ELSE GerarResposta(historico, session_id, history_length, turn, outcome)
       /\ turns' = [s \in DOMAIN turns \cup {session_id} |->
                       IF s = session_id
                       THEN (IF recorded THEN Append(before, turn) ELSE before)
                       ELSE turns[s]]
       /\ latest' = [s \in DOMAIN latest \cup {session_id} |->
                        IF s = session_id THEN history_length ELSE latest[s]]
       /\ lastReq' = [endpoint |-> endpoint, session_id |-> session_id,
                      history_length |-> history_length, turn |-> turn,
                      tokens |-> outcome.tokens, resposta |-> outcome.resposta,
                      raised |-> outcome.search_raises]
       /\ UNCHANGED <<jobVars, fusionVars, retrievalVars, storeVars, loopVars, traceVars,
                      indexVars, splitVars>>

ResponderEndpoint ==
    \E session_id \in Sessions : \E history_length \in 0..MaxHistory :
    \E outcome \in ResponderOutcomes :
        Handle("responder", session_id, history_length, outcome)

GerarRespostaEndpoint ==
    \E session_id \in Sessions : \E history_length \in 0..MaxHistory :
    \E outcome \in GerarRespostaOutcomes :
        Handle("gerar_resposta", session_id, history_length, outcome)

NextHistory == ResponderEndpoint \/ GerarRespostaEndpoint

SpecHistory == InitHistory /\ [][NextHistory]_vars

\* -------------------------------------------------------- SpecBatch
\* process_document_embeddings seen from all_updates_for_bulk.  The cursor
\* delivers blocksLeft blocks that need an embedding; the n-th embedding the
\* provider returns is UpdateOne number n.

\* A list that is never taken for full.
BatchFullNever(updates) == FALSE

\* len(all_updates_for_bulk) >= MAX_EMBEDDING_BATCH_UPDATES
BatchFull(updates) == Len(updates) >= MAX_EMBEDDING_BATCH_UPDATES

\* _execute_embedding_bulk_write(portarias_col, operations) when every
\* collection.bulk_write of the call meets the same outcome
BulkWrite(operations, outcome, final) ==
    [ops |-> operations,
     exception |-> ExecuteEmbeddingBulkWrite(
                       [n \in 1..EMBEDDING_DB_MAX_RETRIES |-> outcome]).exception,
     final |-> final]

\* stats['erros_salvamento_db'] += len(all_updates_for_bulk) in the except arms
ErrosSalvamento(count, write) ==
    IF write.exception = "" THEN count ELSE count + Len(write.ops)

InitBatch ==
    /\ FusionIdle /\ RetrievalIdle /\ ProjetoIdle /\ StoreIdle /\ LoopIdle /\ TraceIdle
    /\ ScriptIdle
    /\ batchPc = "loop"
    /\ blocksLeft \in 0..MaxBlocks
    /\ all_updates_for_bulk = <<>>
    /\ generated = 0
    /\ bulk_writes = <<>>
    /\ erros_salvamento_db = 0

\* get_embedding_from_api raises: the except arms count the failure
ProviderFails ==
    /\ batchPc = "loop"
    /\ blocksLeft > 0
    /\ blocksLeft' = blocksLeft - 1
    /\ UNCHANGED <<batchPc, all_updates_for_bulk, generated, bulk_writes,
                   erros_salvamento_db>>
    /\ UNCHANGED <<fusionVars, retrievalVars, storeVars, loopVars, traceVars, projetoVars, scriptVars>>

\* get_embedding_from_api returns: the UpdateOne is appended and the list
\* is written when it is full
EmbeddingGenerated ==
    LET queued == Append(all_updates_for_bulk, generated + 1)
    IN /\ batchPc = "loop"
       /\ blocksLeft > 0
       /\ blocksLeft' = blocksLeft - 1
       /\ generated' = generated + 1
       /\ IF BatchFull(queued)
          THEN \E outcome \in DbOutcomes :
                  LET write == BulkWrite(queued, outcome, FALSE)
                  IN /\ bulk_writes' = Append(bulk_writes, write)
                     /\ erros_salvamento_db' = ErrosSalvamento(erros_salvamento_db, write)
                     /\ all_updates_for_bulk' = <<>>
          ELSE /\ all_updates_for_bulk' = queued
               /\ UNCHANGED <<bulk_writes, erros_salvamento_db>>
       /\ UNCHANGED batchPc
       /\ UNCHANGED <<fusionVars, retrievalVars, storeVars, loopVars, traceVars, projetoVars, scriptVars>>

\* the cursor is exhausted: the write after the loops, then return stats
FinalFlush ==
    /\ batchPc = "loop"
    /\ blocksLeft = 0
    /\ batchPc' = "done"
    /\ IF all_updates_for_bulk # <<>>
       THEN \E outcome \in DbOutcomes :
               LET write == BulkWrite(all_updates_for_bulk, outcome, TRUE)
               IN /\ bulk_writes' = Append(bulk_writes, write)
                  /\ erros_salvamento_db' = ErrosSalvamento(erros_salvamento_db, write)
       ELSE UNCHANGED <<bulk_writes, erros_salvamento_db>>
    /\ UNCHANGED <<blocksLeft, all_updates_for_bulk, generated>>
    /\ UNCHANGED <<fusionVars, retrievalVars, storeVars, loopVars, traceVars, projetoVars, scriptVars>>

NextBatch == ProviderFails \/ EmbeddingGenerated \/ FinalFlush

SpecBatch == InitBatch /\ [][NextBatch]_vars

\* ------------------------------------------------------- SpecFase1
\* experimento.py, phase 1.  The intermediate file is opened for appending
\* and never flushed inside the loop, so what a stopped run leaves on disk
\* is a prefix of what it wrote, possibly followed by the unterminated
\* beginning of the next line.

\* the retrieval parameters, cut down to one of the three strategies and to
\* two of the three search types; the questions of perguntas.json
PARAMETROS_RECUPERACAO ==
    [chunking_strategy |-> <<"recursive_1000_200">>,
     search_type |-> <<"vetorial", "hibrida">>]

GABARITO == <<"q1", "q2">>

\* itertools.product over the two parameter lists, first key outermost
GerarPlanoExperimental(parametros) ==
    LET cs == parametros.chunking_strategy
        st == parametros.search_type
    IN [n \in 1..(Len(cs) * Len(st)) |->
           [chunking_strategy |-> cs[((n - 1) \div Len(st)) + 1],
            search_type |-> st[((n - 1) % Len(st)) + 1]]]

Chave(question, config) ==
    <<question, config.chunking_strategy, config.search_type>>

\* the tests in the order the two nested loops visit them
Testes ==
    LET plano == GerarPlanoExperimental(PARAMETROS_RECUPERACAO)
    IN [n \in 1..(Len(plano) * Len(GABARITO)) |->
           Chave(GABARITO[((n - 1) % Len(GABARITO)) + 1],
                 plano[((n - 1) \div Len(GABARITO)) + 1])]

Chaves == {Testes[n] : n \in 1..Len(Testes)}

Registro(chave, documentos) ==
    [tipo |-> "registro", chave |-> chave, documentos_ranqueados |-> documentos]

\* the beginning of a line, cut before its end and its newline
Fragmento == [tipo |-> "fragmento", chave |-> NoKey, documentos_ranqueados |-> <<>>]

\* the lines of the file json.loads accepts: a write that follows a
\* fragment continues the fragment's line, and that line does not parse
LinhasValidas(f) ==
    {n \in 1..Len(f) : /\ f[n].tipo = "registro"
                       /\ (n = 1 \/ f[n - 1].tipo # "fragmento")}

CarregarRecuperacoesExistentes(f) == {f[n].chave : n \in LinhasValidas(f)}

\* what the retrieval endpoint answers, or the request failing
ApiRespostas ==
    {[ok |-> TRUE, called |-> TRUE, documentos_ranqueados |-> d] :
        d \in {<<>>, <<"A">>, <<"B", "A">>}}
    \cup {[ok |-> FALSE, called |-> TRUE, documentos_ranqueados |-> <<>>]}

ChamarApiRecuperacao(resposta) ==
    IF resposta.ok THEN resposta.documentos_ranqueados ELSE <<>>

InitFase1 ==
    /\ FusionIdle /\ RetrievalIdle /\ ProjetoIdle /\ StoreIdle /\ LoopIdle /\ TraceIdle
    /\ BatchIdle /\ LoteIdle
    /\ arquivo = <<>>
    /\ recuperacoes_ja_feitas = {}
    /\ f1Pc = "stopped"
    /\ f1Pos = 1
    /\ f1Runs = 0
    /\ escritas = 0
    /\ apiRetorno = [k \in Chaves |-> SemChamada]
    /\ ultimaChamada = NoKey

Fase1Frame ==
    UNCHANGED <<fusionVars, retrievalVars, storeVars, loopVars, traceVars,
                projetoVars, batchVars, loteVars>>

\* the script is started: the keys of the file's valid lines are loaded
Fase1Inicio ==
    /\ f1Pc \in {"stopped", "done"}
    /\ f1Runs < MaxRuns
    /\ f1Runs' = f1Runs + 1
    /\ recuperacoes_ja_feitas' = CarregarRecuperacoesExistentes(arquivo)
    /\ f1Pc' = "loop"
    /\ f1Pos' = 1
    /\ escritas' = 0
    /\ ultimaChamada' = NoKey
    /\ UNCHANGED <<arquivo, apiRetorno>>
    /\ Fase1Frame

\* the test's key was loaded: continue
Fase1Pula ==
    /\ f1Pc = "loop"
    /\ f1Pos <= Len(Testes)
    /\ Testes[f1Pos] \in recuperacoes_ja_feitas
    /\ f1Pos' = f1Pos + 1
    /\ ultimaChamada' = NoKey
    /\ UNCHANGED <<arquivo, recuperacoes_ja_feitas, f1Pc, f1Runs, escritas, apiRetorno>>
    /\ Fase1Frame

\* the retrieval call and the line written with what it gave
Fase1Recupera ==
    /\ f1Pc = "loop"
    /\ f1Pos <= Len(Testes)
    /\ Testes[f1Pos] \notin recuperacoes_ja_feitas
    /\ \E resposta \in ApiRespostas :
          /\ arquivo' = Append(arquivo,
                               Registro(Testes[f1Pos], ChamarApiRecuperacao(resposta)))
          /\ apiRetorno' = [apiRetorno EXCEPT ![Testes[f1Pos]] = resposta]
    /\ escritas' = escritas + 1
    /\ f1Pos' = f1Pos + 1
    /\ ultimaChamada' = Testes[f1Pos]
    /\ UNCHANGED <<recuperacoes_ja_feitas, f1Pc, f1Runs>>
    /\ Fase1Frame

\* both loops are over: the with block closes the file
Fase1Conclui ==
    /\ f1Pc = "loop"
    /\ f1Pos > Len(Testes)
    /\ f1Pc' = "done"
    /\ ultimaChamada' = NoKey
    /\ UNCHANGED <<arquivo, recuperacoes_ja_feitas, f1Pos, f1Runs, escritas, apiRetorno>>
    /\ Fase1Frame

\* the run is stopped inside the loop.  An exception closes the file and
\* everything written is kept (lost = 0); a killed process loses the
\* buffered tail and may leave the beginning of the first lost line.
Fase1Interrompida ==
    /\ f1Pc = "loop"
    /\ \E lost \in 0..escritas, partial \in BOOLEAN :
          /\ partial => lost > 0
          /\ arquivo' = SubSeq(arquivo, 1, Len(arquivo) - lost)
                        \o (IF partial THEN <<Fragmento>> ELSE <<>>)
    /\ f1Pc' = "stopped"
    /\ ultimaChamada' = NoKey
    /\ UNCHANGED <<recuperacoes_ja_feitas, f1Pos, f1Runs, escritas, apiRetorno>>
    /\ Fase1Frame

NextFase1 ==
    Fase1Inicio \/ Fase1Pula \/ Fase1Recupera \/ Fase1Conclui \/ Fase1Interrompida

SpecFase1 == InitFase1 /\ [][NextFase1]_vars

\* ------------------------------------------------------- SpecLotes
\* etl.py, process_documents_in_batches.  A document batch is taken by the
\* number of chunks its documents produce; chunk j of batch i stands for
\* the j-th entry of the three lists built at lines 225-258.
MaxLotes == 2

ChunkId(i, j) == <<i, j>>

ChunkText(id) == <<"texto", id>>

ChunkMetadata(id) == [source_document_id |-> id[1]]

\* the embedding the provider computes for a text
ItemEmbedding(text) == <<"embedding", text>>

\* list[j : j + size], j counted from 0 as in the source
Slice(list, j, size) == SubSeq(list, j + 1, Min(j + size, Len(list)))

ExtendAtFront(list, items) == items \o list

\* all_embeddings.extend(...)
Extend(list, items) == list \o items

\* response.data for one call: one embedding per input text, in order
EmbeddingsCreate(batch_texts) ==
    [k \in 1..Len(batch_texts) |-> ItemEmbedding(batch_texts[k])]

\* the starts of the slices range(0, n, size) visits
SliceStarts(n, size) == {j \in 0..n : j % size = 0 /\ j < n}

\* what one collection.upsert call writes
UpsertRecords(ids, embeddings, documents, metadatas) ==
    {[id |-> ids[k], embedding |-> embeddings[k], document |-> documents[k],
      metadata |-> metadatas[k]] : k \in 1..Len(ids)}

\* the client rejects lists of unequal lengths
UpsertRejects(ids, embeddings, documents, metadatas) ==
    \/ Len(embeddings) # Len(ids)
    \/ Len(documents) # Len(ids)
    \/ Len(metadatas) # Len(ids)

Upsert(stored, records) ==
    {r \in stored : \A w \in records : w.id # r.id} \cup records

\* the collection after the upsert calls for the slices starting before
\* stop have returned
UpsertedUpTo(stored, stop) ==
    LET starts == {j \in SliceStarts(Len(all_chunks_ids), CHROMA_UPSERT_BATCH_SIZE) :
                      j < stop}
        records ==
            UNION {UpsertRecords(
                       Slice(all_chunks_ids, j, CHROMA_UPSERT_BATCH_SIZE),
                       Slice(all_embeddings, j, CHROMA_UPSERT_BATCH_SIZE),
                       Slice(all_chunks_texts, j, CHROMA_UPSERT_BATCH_SIZE),
                       Slice(all_chunks_metadatas, j, CHROMA_UPSERT_BATCH_SIZE)) :
                   j \in starts}
    IN Upsert(stored, records)

\* the slice whose upsert the client rejects, if any
FirstRejected ==
    {j \in SliceStarts(Len(all_chunks_ids), CHROMA_UPSERT_BATCH_SIZE) :
        UpsertRejects(Slice(all_chunks_ids, j, CHROMA_UPSERT_BATCH_SIZE),
                      Slice(all_embeddings, j, CHROMA_UPSERT_BATCH_SIZE),
                      Slice(all_chunks_texts, j, CHROMA_UPSERT_BATCH_SIZE),
                      Slice(all_chunks_metadatas, j, CHROMA_UPSERT_BATCH_SIZE))}

InitLotes ==
    /\ FusionIdle /\ RetrievalIdle /\ ProjetoIdle /\ StoreIdle /\ LoopIdle /\ TraceIdle
    /\ BatchIdle /\ Fase1Idle
    /\ etlPc = "lote"
    /\ lotes \in UNION {[1..n -> 0..MaxLoteChunks] : n \in 0..MaxLotes}
    /\ lote = 1
    /\ all_chunks_ids = <<>>
    /\ all_chunks_texts = <<>>
    /\ all_chunks_metadatas = <<>>
    /\ all_embeddings = <<>>
    /\ embJ = 0
    /\ colecao = {}
    /\ overall_success = TRUE
    /\ gerados = {}
    /\ falhaEm = 0

LotesFrame ==
    UNCHANGED <<fusionVars, retrievalVars, storeVars, loopVars, traceVars,
                projetoVars, batchVars, fase1Vars>>

\* the next document batch: its three lists are built; a batch without
\* chunks is passed over
ProximoLote ==
    /\ etlPc = "lote"
    /\ lote <= Len(lotes)
    /\ LET ids == [j \in 1..lotes[lote] |-> ChunkId(lote, j)]
       IN /\ all_chunks_ids' = ids
          /\ all_chunks_texts' = [j \in 1..Len(ids) |-> ChunkText(ids[j])]
          /\ all_chunks_metadatas' = [j \in 1..Len(ids) |-> ChunkMetadata(ids[j])]
          /\ IF ids = <<>>
             THEN /\ lote' = lote + 1
                  /\ UNCHANGED <<etlPc, all_embeddings, embJ>>
             ELSE /\ etlPc' = "embed"
                  /\ all_embeddings' = <<>>
                  /\ embJ' = 0
                  /\ UNCHANGED lote
    /\ UNCHANGED <<lotes, colecao, overall_success, gerados, falhaEm>>
    /\ LotesFrame

\* one embeddings.create call returns
EmbeddingsCreated ==
    /\ etlPc = "embed"
    /\ embJ < Len(all_chunks_texts)
    /\ LET batch_texts == Slice(all_chunks_texts, embJ, EMBEDDING_API_BATCH_SIZE)
       IN /\ all_embeddings' = Extend(all_embeddings, EmbeddingsCreate(batch_texts))
          /\ gerados' = gerados \cup Range(batch_texts)
    /\ embJ' = embJ + EMBEDDING_API_BATCH_SIZE
    /\ UNCHANGED <<etlPc, lotes, lote, all_chunks_ids, all_chunks_texts,
                   all_chunks_metadatas, colecao, overall_success, falhaEm>>
    /\ LotesFrame

\* one embeddings.create call raises: both loops are left
EmbeddingsCreateFails ==
    /\ etlPc = "embed"
    /\ embJ < Len(all_chunks_texts)
    /\ overall_success' = FALSE
    /\ falhaEm' = lote
    /\ etlPc' = "returned"
    /\ UNCHANGED <<lotes, lote, all_chunks_ids, all_chunks_texts, all_chunks_metadatas,
                   all_embeddings, embJ, colecao, gerados>>
    /\ LotesFrame

\* the embedding loop is over: the upsert calls, slice by slice; a call
\* that raises leaves what the calls before it wrote
UpsertLote ==
    /\ etlPc = "embed"
    /\ embJ >= Len(all_chunks_texts)
    /\ \E raises \in {Len(all_chunks_ids)}
                      \cup SliceStarts(Len(all_chunks_ids), CHROMA_UPSERT_BATCH_SIZE) :
          /\ \A j \in FirstRejected : raises <= j
          /\ colecao' = UpsertedUpTo(colecao, raises)
          /\ IF raises < Len(all_chunks_ids)
             THEN /\ overall_success' = FALSE
                  /\ etlPc' = "returned"
                  /\ UNCHANGED lote
             ELSE /\ lote' = lote + 1
                  /\ etlPc' = "lote"
                  /\ UNCHANGED overall_success
    /\ UNCHANGED <<lotes, all_chunks_ids, all_chunks_texts, all_chunks_metadatas,
                   all_embeddings, embJ, gerados, falhaEm>>
    /\ LotesFrame

\* no batch is left: return overall_success
RetornaLotes ==
    /\ etlPc = "lote"
    /\ lote > Len(lotes)
    /\ etlPc' = "returned"
    /\ UNCHANGED <<lotes, lote, all_chunks_ids, all_chunks_texts, all_chunks_metadatas,
                   all_embeddings, embJ, colecao, overall_success, gerados, falhaEm>>
    /\ LotesFrame

NextLotes ==
    ProximoLote \/ EmbeddingsCreated \/ EmbeddingsCreateFails \/ UpsertLote \/ RetornaLotes

SpecLotes == InitLotes /\ [][NextLotes]_vars

\* ----------------------------------------------------- SpecChunking
ChunkConfigs == {<<cs, co>> \in (1..MaxChunkSize) \X (0..MaxChunkSize) : co < cs}

\* a run of the collector
SyncWith(extracted) ==
    /\ portarias' = SyncedStore(portarias, extracted)
    /\ written' = {}
    /\ stats' = NoStats
    /\ lastOp' = Op("sync", 0, 0)
    /\ tick' = 1 - tick
    /\ UNCHANGED <<jobVars, projetoVars, fusionVars, retrievalVars, loopVars, traceVars>>

Extractions == UNION {[D -> Texts] : D \in SUBSET DocIds}

Sync == \E extracted \in Extractions : SyncWith(extracted) /\ UNCHANGED <<lastPassOver, syncLog, chunkLog>>

\* The loop over the cursor, were the first exception to end it.
ChunkOutcomesStoppingAtError(store, chunk_size, chunk_overlap, failing, unrecorded) ==
    LET cursor == SetToSeq(DOMAIN store)
        one(d) == ProcessDocument(store[d], chunk_size, chunk_overlap,
                                  d \in failing, d \notin unrecorded)
        reached(d) == \A i \in 1..Len(cursor) : \A j \in 1..Len(cursor) :
                         (cursor[j] = d /\ i < j) => ~one(cursor[i]).raised
    IN [d \in DOMAIN store |->
           IF reached(d) THEN one(d)
           ELSE [doc |-> store[d], wrote |-> FALSE, raised |-> FALSE]]

\* The loop over the cursor: what becomes of each document.  failing holds
\* the documents whose chunking raises, unrecorded those of them for which
\* the update_one of the except arm raises as well; the arm ends in
\* `continue`.
ChunkOutcomes(store, chunk_size, chunk_overlap, failing, unrecorded) ==
    [d \in DOMAIN store |->
        ProcessDocument(store[d], chunk_size, chunk_overlap,
                        d \in failing, d \notin unrecorded)]

\* split_text_into_blocks(chunk_size, chunk_overlap) over the whole store
ChunkPassWith(chunk_size, chunk_overlap, failing, unrecorded) ==
    LET out == ChunkOutcomes(portarias, chunk_size, chunk_overlap, failing, unrecorded)
    IN /\ portarias' = [d \in DOMAIN portarias |-> out[d].doc]
       /\ written' = {d \in DOMAIN portarias : out[d].wrote}
       /\ stats' = NoStats
       /\ lastOp' = Op("chunk", chunk_size, chunk_overlap)
       /\ tick' = 1 - tick
       /\ UNCHANGED <<jobVars, projetoVars, fusionVars, retrievalVars, loopVars, traceVars>>

ChunkPass ==
    \E cfg \in ChunkConfigs : \E failing \in SUBSET DOMAIN portarias :
        ChunkPassWith(cfg[1], cfg[2], failing, {})
        /\ UNCHANGED <<lastPassOver, syncLog, chunkLog>>

\* one pass of process_document_embeddings
EmbedPassWith(api_fails, db_ok) ==
    LET out == ProcessDocumentEmbeddings(portarias, api_fails, db_ok)
    IN /\ portarias' = out.store
       /\ stats' = out.stats
       /\ written' = {}
       /\ lastOp' = Op("embed", 0, 0)
       /\ tick' = 1 - tick
       /\ UNCHANGED <<lastPassOver, syncLog, chunkLog>>
       /\ UNCHANGED <<jobVars, projetoVars, fusionVars, retrievalVars, loopVars, traceVars>>

EmbedPass ==
    \E api_fails \in SUBSET Range(EmbeddingWork(portarias)) : \E db_ok \in BOOLEAN :
        EmbedPassWith(api_fails, db_ok)

InitChunking == FusionIdle /\ RetrievalIdle /\ JobIdle /\ ProjetoIdle /\ StoreIdle /\ LoopIdle /\ TraceIdle

NextChunking == Sync \/ ChunkPass \/ EmbedPass

SpecChunking == InitChunking /\ [][NextChunking]_vars

\* ------------------------------------------------------ SpecRechunk
\* Collection and chunking alone, with the record of what the latest
\* chunking pass met.
Collect ==
    \E extracted \in Extractions :
        /\ SyncWith(extracted)
        /\ lastPassOver' =
               [lastPassOver EXCEPT !.untouched =
                   {d \in @ \cap DOMAIN portarias' :
                       portarias'[d].texto_completo = portarias[d].texto_completo}]
        /\ UNCHANGED <<syncLog, chunkLog>>

Rechunk ==
    \E cfg \in ChunkConfigs : \E failing \in SUBSET DOMAIN portarias :
        /\ ChunkPassWith(cfg[1], cfg[2], failing, {})
        /\ lastPassOver' = PassOver(cfg[1], cfg[2], DOMAIN portarias)
        /\ UNCHANGED <<syncLog, chunkLog>>

InitRechunk == InitChunking

NextRechunk == Collect \/ Rechunk

SpecRechunk == InitRechunk /\ [][NextRechunk]_vars

\* ---------------------------------------------------- SpecEmbedLoop
\* main_embedding_loop over a store that collection and chunking have filled.
Failed(run_stats) ==
    run_stats.falhas_geracao_embedding > 0 \/ run_stats.erros_salvamento_db > 0

NoProgressCountNeverGrows(count, current, previous, run_stats) == 0

\* the if / elif that follows the count taken after the pass
NextNoProgressCount(count, current, previous, run_stats) ==
    IF previous = Infinity \/ current < previous[1] THEN 0
    ELSE IF Failed(run_stats) THEN count + 1
    ELSE count

\* A for statement that goes on for as long as something is pending.
NextIterationWhilePending ==
    IF attempt_main < EMBEDDING_MAIN_LOOP_MAX_ATTEMPTS \/ current_pending_count_main # <<0>>
    THEN loopPc' = "attempt" /\ attempt_main' = attempt_main + 1
    ELSE loopPc' = "final" /\ UNCHANGED attempt_main

\* the for statement takes the next value of range(1, MAX_ATTEMPTS + 1), or ends
NextIteration ==
    IF attempt_main < EMBEDDING_MAIN_LOOP_MAX_ATTEMPTS
    THEN loopPc' = "attempt" /\ attempt_main' = attempt_main + 1
    ELSE loopPc' = "final" /\ UNCHANGED attempt_main

PassRuns(out) ==
    /\ portarias' = out.store
    /\ stats' = out.stats
    /\ written' = {}
    /\ lastOp' = Op("embed", 0, 0)
    /\ tick' = 1 - tick
    /\ UNCHANGED <<lastPassOver, syncLog, chunkLog>>

\* setup_database_embedding returns the collection
SetupDatabase ==
    /\ loopPc = "setup"
    /\ loopPc' = "attempt"
    /\ attempt_main' = 1
    /\ UNCHANGED <<previous_pending_count_main, current_pending_count_main,
                   consecutive_no_progress_count_main, success_overall, returned,
                   passAfter, decreased, stalled>>
    /\ UNCHANGED <<jobVars, projetoVars, fusionVars, retrievalVars, storeVars, traceVars>>

\* setup_database_embedding raises: return False
SetupRaises ==
    /\ loopPc = "setup"
    /\ loopPc' = "returned"
    /\ returned' = FALSE
    /\ UNCHANGED <<attempt_main, previous_pending_count_main, current_pending_count_main,
                   consecutive_no_progress_count_main, success_overall,
                   passAfter, decreased, stalled>>
    /\ UNCHANGED <<jobVars, projetoVars, fusionVars, retrievalVars, storeVars, traceVars>>

\* the count at the start of the attempt raises; the except arm logs it
CountRaises ==
    /\ loopPc = "attempt"
    /\ NextIteration
    /\ UNCHANGED <<previous_pending_count_main, current_pending_count_main,
                   consecutive_no_progress_count_main, success_overall, returned,
                   passAfter, decreased, stalled>>
    /\ UNCHANGED <<jobVars, projetoVars, fusionVars, retrievalVars, storeVars, traceVars>>

\* the count at the start of the attempt is 0
NothingPending ==
    /\ loopPc = "attempt"
    /\ PendingCount(portarias) = 0
    /\ current_pending_count_main' = <<0>>
    /\ success_overall' = TRUE
    /\ loopPc' = "final"
    /\ UNCHANGED <<attempt_main, previous_pending_count_main,
                   consecutive_no_progress_count_main, returned,
                   passAfter, decreased, stalled>>
    /\ UNCHANGED <<jobVars, projetoVars, fusionVars, retrievalVars, storeVars, traceVars>>

\* process_document_embeddings raises before it writes (the find fails)
PassRaises ==
    /\ loopPc = "attempt"
    /\ PendingCount(portarias) > 0
    /\ current_pending_count_main' = <<PendingCount(portarias)>>
    /\ NextIteration
    /\ UNCHANGED <<previous_pending_count_main, consecutive_no_progress_count_main,
                   success_overall, returned, passAfter, decreased, stalled>>
    /\ UNCHANGED <<jobVars, projetoVars, fusionVars, retrievalVars, storeVars, traceVars>>

\* the pass runs and the count after it raises
PassThenCountRaises ==
    /\ loopPc = "attempt"
    /\ PendingCount(portarias) > 0
    /\ \E api_fails \in SUBSET Range(EmbeddingWork(portarias)) : \E db_ok \in BOOLEAN :
          PassRuns(ProcessDocumentEmbeddings(portarias, api_fails, db_ok))
    /\ current_pending_count_main' = <<PendingCount(portarias)>>
    /\ NextIteration
    /\ UNCHANGED <<previous_pending_count_main, consecutive_no_progress_count_main,
                   success_overall, returned, passAfter, decreased, stalled>>
    /\ UNCHANGED <<jobVars, projetoVars, fusionVars, retrievalVars, traceVars>>

\* one attempt that runs to the end of the try block
AttemptWith(api_fails, db_ok) ==
    LET out == ProcessDocumentEmbeddings(portarias, api_fails, db_ok)
        current == PendingCount(out.store)
        count == NextNoProgressCount(consecutive_no_progress_count_main, current,
                                     previous_pending_count_main, out.stats)
        lower == passAfter # <<>> /\ current < passAfter[1]
    IN /\ loopPc = "attempt"
       /\ PendingCount(portarias) > 0
       /\ PassRuns(out)
       /\ current_pending_count_main' = <<current>>
       /\ IF current = 0
          THEN /\ success_overall' = TRUE
               /\ loopPc' = "final"
               /\ UNCHANGED <<attempt_main, consecutive_no_progress_count_main,
                              previous_pending_count_main>>
          ELSE /\ consecutive_no_progress_count_main' = count
               /\ UNCHANGED success_overall
               /\ IF count >= EMBEDDING_MAIN_LOOP_NO_PROGRESS_THRESHOLD
                  THEN loopPc' = "final"
                       /\ UNCHANGED <<attempt_main, previous_pending_count_main>>
                  ELSE previous_pending_count_main' = <<current>> /\ NextIteration
       /\ passAfter' = <<current>>
       /\ decreased' = lower
       /\ stalled' = IF passAfter # <<>> /\ ~lower /\ Failed(out.stats)
                     THEN stalled + 1 ELSE 0
       /\ UNCHANGED returned
       /\ UNCHANGED <<jobVars, projetoVars, fusionVars, retrievalVars, traceVars>>

Attempt ==
    \E api_fails \in SUBSET Range(EmbeddingWork(portarias)) : \E db_ok \in BOOLEAN :
        AttemptWith(api_fails, db_ok)

\* A final check that reports success whatever it finds.
FinalSuccessWhateverIsPending(final_pending_count_main, success) == TRUE

\* if final_pending_count_main == 0 and success_overall
FinalSuccess(final_pending_count_main, success) ==
    final_pending_count_main = 0 /\ success

\* the final count, and the value returned
FinalCheck ==
    /\ loopPc = "final"
    /\ success_overall' = FinalSuccess(PendingCount(portarias), success_overall)
    /\ returned' = success_overall'
    /\ loopPc' = "returned"
    /\ UNCHANGED <<attempt_main, previous_pending_count_main, current_pending_count_main,
                   consecutive_no_progress_count_main, passAfter, decreased, stalled>>
    /\ UNCHANGED <<jobVars, projetoVars, fusionVars, retrievalVars, storeVars, traceVars>>

\* the final count raises, and main_embedding_loop with it
FinalCheckRaises ==
    /\ loopPc = "final"
    /\ loopPc' = "raised"
    /\ UNCHANGED <<attempt_main, previous_pending_count_main, current_pending_count_main,
                   consecutive_no_progress_count_main, success_overall, returned,
                   passAfter, decreased, stalled>>
    /\ UNCHANGED <<jobVars, projetoVars, fusionVars, retrievalVars, storeVars, traceVars>>

InitEmbedLoop ==
    /\ FusionIdle
    /\ RetrievalIdle /\ JobIdle /\ ProjetoIdle
    /\ \E texto_completo \in Texts : \E cfg \in ChunkConfigs :
          portarias = [d \in DocIds |->
                          ProcessDocument(NewDocument(texto_completo), cfg[1], cfg[2], FALSE, TRUE).doc]
    /\ written = {}
    /\ stats = NoStats
    /\ lastOp = Op("none", 0, 0)
    /\ lastPassOver = PassOver(0, 0, {})
    /\ syncLog = NoSync
    /\ chunkLog = NoChunkLog
    /\ tick = 0
    /\ loopPc = "setup"
    /\ attempt_main = 0
    /\ previous_pending_count_main = Infinity
    /\ current_pending_count_main = Infinity
    /\ consecutive_no_progress_count_main = 0
    /\ success_overall = FALSE
    /\ returned = FALSE
    /\ passAfter = <<>>
    /\ decreased = FALSE
    /\ stalled = 0
    /\ TraceIdle

NextEmbedLoop ==
    \/ SetupDatabase
    \/ SetupRaises
    \/ CountRaises
    \/ NothingPending
    \/ PassRaises
    \/ PassThenCountRaises
    \/ Attempt
    \/ FinalCheck
    \/ FinalCheckRaises

SpecEmbedLoop == InitEmbedLoop /\ [][NextEmbedLoop]_vars

\* The loop reads the store only through the count of pending blocks and
\* the passes over them; it is started on the documents of at most two
\* blocks, which give nothing pending, one block, two blocks and two blocks
\* of one hash.
InitEmbedLoopFair ==
    /\ InitEmbedLoop
    /\ \A d \in DocIds : Len(portarias[d].texto_blocos) <= 2

\* main_embedding_loop is sequential code: its statements are executed one
\* after the other, the provider calls time out and the waits are bounded,
\* so a step that can be taken is taken.
SpecEmbedLoopFair ==
    InitEmbedLoopFair /\ [][NextEmbedLoop]_vars /\ WF_vars(NextEmbedLoop)

\* ----------------------------------------------------- SpecProvider
\* One call of get_embedding_from_api on a drawn text, against a drawn
\* sequence of provider responses, one per attempt the decorator allows.
CallTexts == {<<>>, <<"a">>}

DrawnResponses == {"vector", "short", "timeout", "redirects"}

CallProvider ==
    /\ callPc = "idle"
    /\ callPc' = "done"
    /\ callResult' = GetEmbeddingFromApi(callText, callResponses)
    /\ UNCHANGED <<callText, callResponses, passPc, passCalls, passLog, passDb>>
    /\ UNCHANGED <<jobVars, projetoVars, fusionVars, retrievalVars, storeVars, loopVars>>

InitProvider ==
    /\ FusionIdle /\ RetrievalIdle /\ JobIdle /\ ProjetoIdle /\ StoreIdle /\ LoopIdle
    /\ callPc = "idle"
    /\ callText \in CallTexts
    /\ callResponses \in [1..EMBEDDING_API_MAX_RETRIES -> DrawnResponses]
    /\ callResult = NoCall
    /\ passPc = "idle"
    /\ passCalls = <<>>
    /\ passLog = NoLog
    /\ passDb = NoBulkWrite

NextProvider == CallProvider

SpecProvider == InitProvider /\ [][NextProvider]_vars

\* ---------------------------------------------------- SpecEmbedPass
\* One pass of process_document_embeddings over two chunked documents whose
\* blocks hold what a store can hold in the embedding field: nothing or
\* null, the empty list, a vector of another model's length, a vector of
\* the model's length.
PassDocIds == {"d1", "d2"}

PassTexts == {<<"a">>, <<"a", "b">>, <<"a", "a">>, <<"ERRO_">>}

EmptyEmbedding == [kind |-> "empty", of |-> <<>>]

StoredEmbeddings(texto) == {NullEmbedding, EmptyEmbedding, ShortVector(texto), Vector(texto)}

\* the documents split_text_into_blocks leaves, one block per word, with
\* every choice of stored embeddings
StoredDocuments ==
    UNION {LET chunked == ProcessDocument(NewDocument(texto_completo), 1, 0, FALSE, TRUE).doc
               blocos == chunked.texto_blocos
           IN {[chunked EXCEPT !.texto_blocos =
                                  [i \in 1..Len(blocos) |->
                                      [blocos[i] EXCEPT !.embedding = held[i]]]] :
                  held \in {h \in [1..Len(blocos) -> UNION {StoredEmbeddings(blocos[i].texto) :
                                                              i \in 1..Len(blocos)}] :
                               \A i \in 1..Len(blocos) : h[i] \in StoredEmbeddings(blocos[i].texto)}}
           : texto_completo \in PassTexts}

\* what the provider does for one block: it answers, it answers with a
\* vector of the wrong length, it is down
PassResponses == {SteadyResponses("vector"), SteadyResponses("short"), SteadyResponses("timeout")}

\* what the bulk_write attempts meet: no failure, a failure at the first
\* attempt only, a failure at every attempt
PassDbOutcomes ==
    {[n \in 1..EMBEDDING_DB_MAX_RETRIES |-> "ok"],
     [n \in 1..EMBEDDING_DB_MAX_RETRIES |-> IF n = 1 THEN "PyMongoError" ELSE "ok"],
     [n \in 1..EMBEDDING_DB_MAX_RETRIES |-> "PyMongoError"]}

EmbedPassCallingWith(responses, outcomes) ==
    LET work == EmbeddingWork(portarias)
        calls == CallsOf(portarias, work, responses)
        write == ExecuteEmbeddingBulkWrite(outcomes)
        out == EmbeddingPass(portarias, calls, write.exception = "")
    IN /\ passPc = "idle"
       /\ passPc' = "done"
       /\ passCalls' = [w \in DOMAIN calls |->
                          [met |-> responses[w], exception |-> calls[w].exception,
                           embedding |-> calls[w].embedding, attempts |-> calls[w].attempts]]
       /\ passLog' = [called |-> out.called, queued |-> out.queued]
       /\ passDb' = IF out.queued = <<>> THEN [NoBulkWrite EXCEPT !.outcomes = outcomes]
                    ELSE [outcomes |-> outcomes, exception |-> write.exception,
                          attempts |-> write.attempts]
       /\ portarias' = out.store
       /\ stats' = out.stats
       /\ written' = {}
       /\ lastOp' = Op("embed", 0, 0)
       /\ tick' = 1 - tick
       /\ UNCHANGED <<lastPassOver, syncLog, chunkLog>>
       /\ UNCHANGED <<callPc, callText, callResponses, callResult>>
       /\ UNCHANGED <<jobVars, projetoVars, fusionVars, retrievalVars, loopVars>>

EmbedPassCalling ==
    \E outcomes \in PassDbOutcomes :
        \E responses \in [Range(EmbeddingWork(portarias)) -> PassResponses] :
            EmbedPassCallingWith(responses, outcomes)

InitEmbedPass ==
    /\ FusionIdle /\ RetrievalIdle /\ JobIdle /\ ProjetoIdle /\ LoopIdle /\ TraceIdle
    /\ portarias \in [PassDocIds -> StoredDocuments]
    /\ written = {}
    /\ stats = NoStats
    /\ lastOp = Op("none", 0, 0)
    /\ lastPassOver = PassOver(0, 0, {})
    /\ syncLog = NoSync
    /\ chunkLog = NoChunkLog
    /\ tick = 0

NextEmbedPass == EmbedPassCalling

SpecEmbedPass == InitEmbedPass /\ [][NextEmbedPass]_vars

\* ------------------------------------------------------- SpecCorpus
\* Collection, chunking and embedding over a corpus of two documents, with
\* the writes of the collector failing or not, and the record of what the
\* latest run of the collector met.
CorpusDocIds == {"d1", "d2"}

CorpusTexts == {<<"a">>, <<"ERRO_">>, <<"Conteudo nao encontrado">>}

CorpusExtractions == UNION {[D -> CorpusTexts] : D \in SUBSET CorpusDocIds}

Synchronise ==
    \E extracted \in CorpusExtractions :
       \E applied \in SUBSET DOMAIN extracted : \E delete_ok \in BOOLEAN :
          /\ portarias' = SyncedStoreWith(portarias, extracted, applied, delete_ok)
          /\ syncLog' = [db_ids |-> DOMAIN portarias,
                         current_run_ids |-> DOMAIN extracted,
                         applied |-> applied,
                         delete_ok |-> delete_ok]
          /\ written' = {}
          /\ stats' = NoStats
          /\ lastOp' = Op("sync", 0, 0)
          /\ tick' = 1 - tick
          /\ chunkLog' = NoChunkLog
          /\ UNCHANGED lastPassOver
          /\ UNCHANGED <<jobVars, projetoVars, fusionVars, retrievalVars, loopVars, traceVars>>

\* split_text_into_blocks with one word per chunk; chunkLog keeps the
\* documents counted in errors_processing_doc_count
CorpusChunkPass ==
    \E failing \in SUBSET DOMAIN portarias : \E unrecorded \in SUBSET failing :
        /\ ChunkPassWith(1, 0, failing, unrecorded)
        /\ LET out == ChunkOutcomes(portarias, 1, 0, failing, unrecorded)
               errors == {d \in DOMAIN portarias : out[d].raised}
           IN chunkLog' = [errors |-> errors, unrecorded |-> errors \cap unrecorded]
        /\ syncLog' = NoSync
        /\ UNCHANGED lastPassOver

CorpusEmbedPass ==
    \E api_fails \in SUBSET Range(EmbeddingWork(portarias)) : \E db_ok \in BOOLEAN :
        /\ LET out == ProcessDocumentEmbeddings(portarias, api_fails, db_ok)
           IN /\ portarias' = out.store
              /\ stats' = out.stats
        /\ written' = {}
        /\ lastOp' = Op("embed", 0, 0)
        /\ tick' = 1 - tick
        /\ syncLog' = NoSync
        /\ chunkLog' = NoChunkLog
        /\ UNCHANGED lastPassOver
        /\ UNCHANGED <<jobVars, projetoVars, fusionVars, retrievalVars, loopVars, traceVars>>

InitCorpus == InitChunking

NextCorpus == Synchronise \/ CorpusChunkPass \/ CorpusEmbedPass

SpecCorpus == InitCorpus /\ [][NextCorpus]_vars

\* ------------------------------------------------ properties, fusion
\* The fused score the contract gives an id: over every list holding the
\* id, 1/(k + rank + 1) with rank its zero-based position there.
PositionIn(id, results) == CHOOSE r \in 1..Len(results) : results[r]._id = id

TermOf(id, results) ==
    IF \E r \in 1..Len(results) : results[r]._id = id
    THEN ScoreScale \div (RRF_K + (PositionIn(id, results) - 1) + 1)
    ELSE 0

FusedScore(id) == TermOf(id, rrfLists[1]) + TermOf(id, rrfLists[2])

InputIds == Range(Ids(rrfLists[1])) \cup Range(Ids(rrfLists[2]))

NonIncreasingFused(out) ==
    \A i \in 1..Len(out) : \A j \in 1..Len(out) :
        i < j => FusedScore(out[i]._id) >= FusedScore(out[j]._id)

\* C1: every distinct id gets as total score the sum, over the lists that
\* hold it, of 1/(k + rank + 1), k = 60, rank zero-based; the scores of an
\* id held by several lists accumulate.
C1_FusedScoreIsSumOfReciprocalRanks ==
    rrfPc = "done" =>
        /\ DOMAIN rrfScore = InputIds
        /\ \A id \in InputIds : rrfScore[id] = FusedScore(id)

\* An id at different ranks of both lists has been fused.
C1_Witness ==
    /\ rrfPc = "done"
    /\ \E id \in Range(Ids(rrfLists[1])) \cap Range(Ids(rrfLists[2])) :
          /\ PositionIn(id, rrfLists[1]) # PositionIn(id, rrfLists[2])
          /\ rrfScore[id] > Contribution(0)

\* C2: the output holds no id twice, only ids of the inputs, in
\* non-increasing order of fused score, and min(final_k, distinct ids) of them.
C2_OutputDistinctSortedTruncated ==
    rrfPc = "done" =>
        /\ \A i \in 1..Len(rrfOut) : \A j \in 1..Len(rrfOut) :
              i # j => rrfOut[i]._id # rrfOut[j]._id
        /\ Range(Ids(rrfOut)) \subseteq InputIds
        /\ NonIncreasingFused(rrfOut)
        /\ Len(rrfOut) = Min(rrfFinalK, Cardinality(InputIds))

\* A fusion of overlapping lists that final_k cut short.
C2_Witness ==
    /\ rrfPc = "done"
    /\ Cardinality(InputIds) > rrfFinalK
    /\ Len(rrfOut) >= 2
    /\ Range(Ids(rrfLists[1])) \cap Range(Ids(rrfLists[2])) # {}
    /\ FusedScore(rrfOut[1]._id) > FusedScore(rrfOut[2]._id)

BothNonEmpty == rrfLists[1] # <<>> /\ rrfLists[2] # <<>>

NoFusedTies ==
    \A x \in InputIds : \A y \in InputIds : x # y => FusedScore(x) # FusedScore(y)

FusedScoresOf(out) == [i \in 1..Len(out) |-> FusedScore(out[i]._id)]

\* C3 as stated: for non-empty A and B, fusing [A, B] and [B, A] returns the
\* same ids in the same order.
C3_Original_SwapGivesSameRanking ==
    (rrfPc = "done" /\ BothNonEmpty) => Ids(rrfOut) = Ids(rrfSwapped)

\* C3 amended: for non-empty A and B the two calls return lists with the
\* same sequence of fused scores, and the same ids in the same order
\* whenever no two distinct ids have equal fused score.
C3_SwapGivesSameRankingUpToTies ==
    (rrfPc = "done" /\ BothNonEmpty) =>
        /\ FusedScoresOf(rrfOut) = FusedScoresOf(rrfSwapped)
        /\ NonIncreasingFused(rrfSwapped)
        /\ NoFusedTies => Ids(rrfOut) = Ids(rrfSwapped)

\* Two different non-empty lists that share ids, without ties, were fused
\* in both orders.
C3_Witness ==
    /\ rrfPc = "done"
    /\ BothNonEmpty
    /\ rrfLists[1] # rrfLists[2]
    /\ Range(Ids(rrfLists[1])) \cap Range(Ids(rrfLists[2])) # {}
    /\ NoFusedTies
    /\ Len(rrfOut) >= 2
    /\ Ids(rrfOut) = Ids(rrfSwapped)

\* --------------------------------------------- properties, retrieval
Hybrid == qPc = "done" /\ qMode = "hibrida" /\ qCollection

\* what each side of the last call delivered, [] standing for a failure
DenseDelivered ==
    LET v == ExecutarBuscaVetorial(qDense, qMaxK)
    IN IF v.raised THEN <<>> ELSE v.result

SparseDelivered ==
    LET t == ExecutarBuscaTextual(qSparse, qMaxK)
    IN IF t.raised THEN <<>> ELSE t.result

DeliveredIds == Range(Ids(DenseDelivered)) \cup Range(Ids(SparseDelivered))

\* C4: in hybrid mode both searches run whatever the other does, the result
\* is the fusion of what succeeded, and it is the empty list when both fail
\* or return nothing; the call never ends with an exception.
C4_HybridSearchesIndependent ==
    /\ Hybrid =>
          /\ qRaised = FALSE
          /\ qRan = {"dense", "sparse"}
          /\ Range(Ids(qResult)) \subseteq DeliveredIds
          /\ Len(qResult) = Min(qMaxK, Cardinality(DeliveredIds))
          /\ qResult = ReciprocalRankFusion(<<DenseDelivered, SparseDelivered>>, qMaxK)
          /\ (DenseDelivered = <<>> /\ SparseDelivered = <<>>) => qResult = <<>>
    /\ (qPc = "done" /\ qMode = "hibrida" /\ ~qCollection) =>
          (qResult = <<>> /\ qRaised = FALSE)

\* The dense query raised and the hybrid call returned the sparse matches.
C4_Witness ==
    /\ Hybrid
    /\ qDense.raises
    /\ "sparse" \in qRan
    /\ qResult # <<>>

PositiveScores == {i \in 1..Len(qSparse.scores) : qSparse.scores[i] > 0}

\* C5: when the provider fails to embed the question, dense mode returns []
\* without raising, and hybrid mode returns exactly the sparse-only ranking,
\* non-empty whenever some chunk has a positive BM25 score.
C5_EmbeddingFailureFallsBackToSparse ==
    (qPc = "done" /\ qCollection /\ ~qDense.embedOk) =>
        /\ qMode = "vetorial" => (qResult = <<>> /\ qRaised = FALSE)
        /\ qMode = "hibrida" =>
              /\ qRaised = FALSE
              /\ qResult = SparseDelivered
              /\ \A i \in 1..Len(qResult) :
                    /\ qResult[i]._id \in PositiveScores
                    /\ qResult[i].score = qSparse.scores[qResult[i]._id]
              /\ \A i \in 1..Len(qResult) : \A j \in 1..Len(qResult) :
                    i < j => qResult[i].score >= qResult[j].score
              /\ ~qSparse.raises =>
                    Len(qResult) = Min(qMaxK, Cardinality(PositiveScores))

\* The provider failed in a hybrid call and two sparse matches came back.
C5_Witness ==
    /\ Hybrid
    /\ ~qDense.embedOk
    /\ Len(qResult) >= 2
    /\ qResult[1].score > qResult[2].score

\* ----------------------------------------------- properties, chunking
ChunkStep == lastOp'.kind = "chunk"

ValidText(doc) ==
    /\ doc.texto_completo # <<>>
    /\ ~IsCollectionError(doc.texto_completo)
    /\ Strip(doc.texto_completo) # <<>>

ContentHash(doc) == Sha256(Strip(doc.texto_completo))

\* the pass wrote new chunks for d
Rechunked(d) == d \in written' /\ portarias'[d].chunk_params.status = "PROCESSADO_OK"

\* the embeddings the chunks of doc with text hash h held
EmbeddingsHeld(doc, h) ==
    {doc.texto_blocos[i].embedding : i \in {k \in 1..Len(doc.texto_blocos) :
        /\ doc.texto_blocos[k].texto_hash = h
        /\ doc.texto_blocos[k].embedding.kind \notin {"null", "empty"}}}

SameContentAsChunked(doc) ==
    doc.chunk_params.present /\ doc.chunk_params.hash = ContentHash(doc)

UnchangedSincePreviousPass(d) ==
    /\ d \in lastPassOver.untouched
    /\ lastPassOver.chunk_size = lastOp'.chunk_size
    /\ lastPassOver.chunk_overlap = lastOp'.chunk_overlap

NoWrites(d) == d \notin written' /\ portarias'[d] = portarias[d]

MustRechunk(doc, chunk_size, chunk_overlap) ==
    \/ ~doc.chunk_params.present
    \/ doc.chunk_params.hash # ContentHash(doc)
    \/ doc.chunk_params.chunk_size # chunk_size
    \/ doc.chunk_params.chunk_overlap # chunk_overlap
    \/ doc.chunk_params.status \in {"ERRO_NO_CHUNKING", "ERRO_NA_COLETA", "TEXTO_VAZIO"}

AllSuccessPass ==
    /\ lastOp.kind = "embed"
    /\ stats.falhas_geracao_embedding = 0
    /\ stats.erros_salvamento_db = 0

Eligible(doc) ==
    doc.chunk_params.status \notin {"ERRO_NA_COLETA", "TEXTO_VAZIO", "ERRO_NO_CHUNKING"}

\* C9 as stated: after a pass of process_document_embeddings in which every
\* provider call and every bulk write succeeded, every chunk with non-empty
\* text of an eligible document has a valid embedding and
\* get_pending_embeddings_count_agg returns 0, for every chunk list.
C9_AllSuccessPassLeavesNothingPending ==
    AllSuccessPass =>
        /\ \A d \in DOMAIN portarias : Eligible(portarias[d]) =>
              \A i \in 1..Len(portarias[d].texto_blocos) :
                  portarias[d].texto_blocos[i].texto # <<>> =>
                      portarias[d].texto_blocos[i].embedding.kind = "vector"
        /\ PendingCount(portarias) = 0

FirstAttemptInvalid ==
    \/ callText = <<>>
    \/ callResponses[1] = "short"

\* C12: get_embedding_from_api retries transport and timeout errors only, at
\* most EMBEDDING_API_MAX_RETRIES attempts; a call whose first attempt ends in
\* a validation failure (empty input text, a vector of the wrong dimension)
\* fails after exactly one attempt.
C12_ValidationFailureIsNotRetried ==
    /\ callPc = "done" => callResult.attempts <= EMBEDDING_API_MAX_RETRIES
    /\ (callPc = "done" /\ FirstAttemptInvalid) =>
           (callResult.attempts = 1 /\ callResult.exception # "")


\* ----------------------------------------- properties, embedding pass
\* C11: a failed bulk write is attempted again, EMBEDDING_DB_MAX_RETRIES times
\* in all; the batch is dropped and counted in erros_salvamento_db only when
\* every one of these attempts has failed.
C11_BulkWriteRetriedUntilExhausted ==
    (passPc = "done" /\ passLog.queued # <<>>) =>
        /\ passDb.exception # "" => passDb.attempts = EMBEDDING_DB_MAX_RETRIES
        /\ (\E n \in 1..EMBEDDING_DB_MAX_RETRIES : passDb.outcomes[n] = "ok") =>
               stats.erros_salvamento_db = 0
        /\ (\A n \in 1..EMBEDDING_DB_MAX_RETRIES : passDb.outcomes[n] # "ok") =>
               stats.erros_salvamento_db = Len(passLog.queued)


PassStep == passPc = "idle" /\ passPc' = "done"

\* the blocks without an embedding in the documents the pass may embed
PendingBlocks(store) ==
    {w \in UNION {{<<d, i>> : i \in 1..Len(store[d].texto_blocos)} : d \in DOMAIN store} :
        /\ store[w[1]].chunk_params.status \notin ErrorStatuses
        /\ PendingBlock(store[w[1]].texto_blocos[w[2]])}

\* C13: in a pass of process_document_embeddings every failed provider call
\* adds exactly one to falhas_geracao_embedding and queues no write for its
\* chunk, and the pass goes on: every pending chunk of every document is
\* attempted, once, whatever failed before it.
C13_ProviderFailureDoesNotAbortPass ==
    [][PassStep =>
          LET called == passLog'.called
              queued == passLog'.queued
              failed == {k \in 1..Len(called) : passCalls'[called[k]].exception # ""}
          IN /\ stats'.falhas_geracao_embedding = Cardinality(failed)
             /\ \A k \in failed : called[k] \notin Range(queued)
             /\ PendingBlocks(portarias) \subseteq Range(called)
             /\ Cardinality(Range(called)) = Len(called)
             /\ stats'.embeddings_gerados_sucesso = Len(queued)
             /\ Len(queued) + Cardinality(failed) = Len(called)]_vars

\* a call failed, and a later block of the same document and a block of the
\* following document were embedded and queued all the same
C13_Witness ==
    /\ passPc = "done"
    /\ \E k, m, n \in 1..Len(passLog.called) :
          /\ k < m /\ m < n
          /\ passCalls[passLog.called[k]].exception # ""
          /\ passLog.called[m][1] = passLog.called[k][1]
          /\ passLog.called[n][1] # passLog.called[k][1]
          /\ passLog.called[m] \in Range(passLog.queued)
          /\ passLog.called[n] \in Range(passLog.queued)
          /\ stats.falhas_geracao_embedding = 1


EmbeddingOf(store, w) == store[w[1]].texto_blocos[w[2]].embedding

\* the blocks for which the provider returned a vector of another length
\* than EMBEDDING_MODEL_DIMENSION, at every attempt
AnsweredShort(calls) == {w \in DOMAIN calls : calls[w].met = SteadyResponses("short")}

\* block w is the first of its document with its texto_hash, and the pass
\* queued the write of another block of the document with that hash
TakesTwinsVector(store, queued, w) ==
    /\ \A i \in 1..(w[2] - 1) :
          store[w[1]].texto_blocos[i].texto_hash # store[w[1]].texto_blocos[w[2]].texto_hash
    /\ \E v \in Range(queued) :
          /\ v[1] = w[1] /\ v # w
          /\ store[v[1]].texto_blocos[v[2]].texto_hash = store[w[1]].texto_blocos[w[2]].texto_hash

EveryWrittenVectorHasModelDimension ==
    /\ \A w \in Range(passLog'.queued) :
          Dimension(passCalls'[w].embedding) = EMBEDDING_MODEL_DIMENSION
    /\ \A w \in AllBlocks(portarias) :
          EmbeddingOf(portarias', w) # EmbeddingOf(portarias, w) =>
              Dimension(EmbeddingOf(portarias', w)) = EMBEDDING_MODEL_DIMENSION

ShortAnswerCountsAsFailure ==
    /\ \A w \in AnsweredShort(passCalls') :
          /\ w \in Range(passLog'.called)
          /\ w \notin Range(passLog'.queued)
          /\ passCalls'[w].exception # ""
    /\ stats'.falhas_geracao_embedding >= Cardinality(AnsweredShort(passCalls'))
    /\ PendingBlocks(portarias) \subseteq Range(passLog'.called)

BlocksWithoutValidEmbedding(store) ==
    {w \in AllBlocks(store) :
        /\ store[w[1]].chunk_params.status \notin ErrorStatuses
        /\ ~IsValidEmbedding(EmbeddingOf(store, w))}

\* C15: a chunk whose stored embedding is absent, null, empty or of another
\* length than EMBEDDING_MODEL_DIMENSION is pending: the count of
\* get_pending_embeddings_count_agg includes it, process_document_embeddings
\* selects its document, and the next pass calls the provider for it.
C15_InvalidEmbeddingIsAlwaysPending ==
    [][PassStep =>
          /\ PendingCount(portarias) = Cardinality(BlocksWithoutValidEmbedding(portarias))
          /\ \A w \in BlocksWithoutValidEmbedding(portarias) :
                /\ SelectedForEmbedding(portarias[w[1]])
                /\ w \in Range(passLog'.called)]_vars


\* --------------------------------- properties, empty and failed texts
\* C16: a document whose raw text is empty after trimming (the empty string,
\* or whitespace only) ends the chunking pass with no chunks and status
\* TEXTO_VAZIO, also when it held chunks before, so that none of its chunks
\* can be selected for embedding.
C16_EmptyTextEndsWithNoChunks ==
    [][ChunkStep =>
          \A d \in DOMAIN portarias :
              Strip(portarias[d].texto_completo) = <<>> =>
                  /\ portarias'[d].texto_blocos = <<>>
                  /\ portarias'[d].chunk_params.status = "TEXTO_VAZIO"
                  /\ BlocksToEmbed(d, portarias'[d]) = <<>>]_vars


\* ------------------------------------------------ properties, corpus
SyncStep == lastOp'.kind = "sync"

Removed == DOMAIN portarias \ DOMAIN portarias'

SentinelTexts == {<<"ERRO_">>, <<"Conteudo nao encontrado">>}

EmbedStep == lastOp'.kind = "embed"

\* C17: the chunking pass gives a document whose raw text is a
\* collection-failure sentinel the status ERRO_NA_COLETA and an empty chunk
\* list, and goes on with the other documents: a document with valid text
\* that must be chunked is written by the same pass, unless its chunking
\* raised and the status could not be written either.  The embedding pass
\* calls the provider for no chunk of a document with status ERRO_NA_COLETA
\* and leaves the document as it is.
C17_SentinelTextIsFlaggedAndSkipped ==
    [][/\ ChunkStep =>
             \A d \in DOMAIN portarias :
                 /\ portarias[d].texto_completo \in SentinelTexts =>
                        /\ portarias'[d].chunk_params.status = "ERRO_NA_COLETA"
                        /\ portarias'[d].texto_blocos = <<>>
                        /\ d \in written'
                 /\ (/\ ValidText(portarias[d])
                     /\ MustRechunk(portarias[d], lastOp'.chunk_size, lastOp'.chunk_overlap)) =>
                        \/ d \in chunkLog'.unrecorded
                        \/ /\ d \in written'
                           /\ portarias'[d].chunk_params.status \in {"PROCESSADO_OK", "ERRO_NO_CHUNKING"}
       /\ EmbedStep =>
             \A d \in DOMAIN portarias :
                 portarias[d].chunk_params.status = "ERRO_NA_COLETA" =>
                     /\ ~SelectedForEmbedding(portarias[d])
                     /\ \A w \in Range(EmbeddingWork(portarias)) : w[1] # d
                     /\ portarias'[d] = portarias[d]]_vars

\* one pass flagged the document with a sentinel text and chunked the other
\* document
C17_Witness ==
    /\ lastOp.kind = "chunk"
    /\ written = CorpusDocIds
    /\ DOMAIN portarias = CorpusDocIds
    /\ \E d, e \in CorpusDocIds :
          /\ portarias[d].texto_completo \in SentinelTexts
          /\ portarias[d].chunk_params.status = "ERRO_NA_COLETA"
          /\ portarias[d].texto_blocos = <<>>
          /\ portarias[e].chunk_params.status = "PROCESSADO_OK"
          /\ Len(portarias[e].texto_blocos) = 1


\* ------------------------------------------ properties, sparse query
SparseQueryDone == qPc = "done" /\ qMode = "textual" /\ qCollection

\* C19: a sparse query returns only candidates whose BM25 score is strictly
\* positive, each with the score the index gave it; when the index scores no
\* chunk above zero (no token of the question occurs in the corpus), or the
\* strategy has no index, the query returns the empty list and does not
\* raise.
C19_SparseReturnsOnlyPositiveScores ==
    SparseQueryDone =>
        /\ \A i \in 1..Len(qResult) :
              /\ qResult[i].score > 0
              /\ qResult[i]._id \in 1..Len(qSparse.scores)
              /\ qResult[i].score = qSparse.scores[qResult[i]._id]
        /\ (\A c \in 1..Len(qSparse.scores) : qSparse.scores[c] <= 0) =>
               (qResult = <<>> /\ ~qRaised)

\* the index scored one chunk zero and one above zero, the query asked for
\* both and returned the second alone
C19_Witness ==
    /\ SparseQueryDone
    /\ Len(qSparse.scores) = 2
    /\ qMaxK >= 2
    /\ \E c \in 1..2 : qSparse.scores[c] = 0
    /\ Len(qResult) = 1
    /\ qResult[1].score > 0

\* C20: _executar_busca_textual returns at most top_k candidates, in
\* non-increasing order of score; they are the highest-scoring chunks of the
\* strategy; candidates with equal score appear in the order of their
\* indices in the document store.
C20_TopKDescendingTiesInInsertionOrder ==
    (SparseQueryDone /\ ~qRaised) =>
        /\ Len(qResult) <= qMaxK
        /\ \A i \in 1..(Len(qResult) - 1) : qResult[i].score >= qResult[i + 1].score
        /\ \A c \in 1..Len(qSparse.scores) :
              (c \notin Range(Ids(qResult)) /\ qSparse.scores[c] > 0) =>
                  /\ Len(qResult) = qMaxK
                  /\ \A i \in 1..Len(qResult) : qResult[i].score >= qSparse.scores[c]
        /\ \A i \in 1..(Len(qResult) - 1) :
              qResult[i].score = qResult[i + 1].score => qResult[i]._id < qResult[i + 1]._id

\* ------------------------------------------------------------- C23
QueryDone == qPc = "done" /\ qCollection

FirstOf(list, n) == [i \in 1..Min(n, Len(list)) |-> list[i]]

\* C24: when both lists handed to the fusion are empty the fused list is
\* empty, and when exactly one of them is non-empty (its ids distinct) the
\* fused list is that list, in its own order, cut to final_k entries.
C24_FusionWithEmptyInputs ==
    rrfPc = "done" =>
        /\ (rrfLists[1] = <<>> /\ rrfLists[2] = <<>>) => rrfOut = <<>>
        /\ (rrfLists[1] # <<>> /\ rrfLists[2] = <<>>) =>
              rrfOut = FirstOf(rrfLists[1], rrfFinalK)
        /\ (rrfLists[1] = <<>> /\ rrfLists[2] # <<>>) =>
              rrfOut = FirstOf(rrfLists[2], rrfFinalK)

\* the dense list empty, three sparse hits, two asked for and returned
C24_Witness ==
    /\ rrfPc = "done"
    /\ rrfLists[1] = <<>>
    /\ Len(rrfLists[2]) = 3
    /\ rrfFinalK = 2
    /\ Ids(rrfOut) = <<rrfLists[2][1]._id, rrfLists[2][2]._id>>

\* ------------------------------------------------------------- C22
\* what the hibrida arm hands to the fusion
VectorResults ==
    LET v == ExecutarBuscaVetorial(qDense, qMaxK)
    IN IF v.raised THEN <<>> ELSE v.result

TextualResults ==
    LET t == ExecutarBuscaTextual(qSparse, qMaxK)
    IN IF t.raised THEN <<>> ELSE t.result

\* the fused totals, over the common denominator ScoreScale
FusedTotals == RankedResults(<<VectorResults, TextualResults>>).score

\* C22: each result carries the score of the method that produced the list:
\* 1 - distance after a dense search, the BM25 score after a sparse search,
\* the reciprocal-rank-fusion total after a hybrid search; the list returned
\* is in non-increasing order of the score it carries.
C22_ScoreIsTheMethodsScore ==
    (QueryDone /\ ~qRaised) =>
        /\ qMode = "vetorial" =>
              \A i \in 1..Len(qResult) : qResult[i].score = 1 - (i - 1)
        /\ qMode = "textual" =>
              \A i \in 1..Len(qResult) : qResult[i].score = qSparse.scores[qResult[i]._id]
        /\ qMode = "hibrida" =>
              \A i \in 1..Len(qResult) :
                  qResult[i].score * ScoreScale = FusedTotals[qResult[i]._id]
        /\ \A i \in 1..(Len(qResult) - 1) : qResult[i].score >= qResult[i + 1].score

\* The order alone: the scores carried never increase along the list.
C22_ScoresNonIncreasing ==
    (QueryDone /\ ~qRaised) =>
        \A i \in 1..(Len(qResult) - 1) : qResult[i].score >= qResult[i + 1].score

\* The dense and the sparse part of C22, which the code meets.
C22_SingleMethodScores ==
    (QueryDone /\ ~qRaised /\ qMode \in {"vetorial", "textual"}) =>
        /\ qMode = "vetorial" =>
              \A i \in 1..Len(qResult) : qResult[i].score = 1 - (i - 1)
        /\ qMode = "textual" =>
              \A i \in 1..Len(qResult) : qResult[i].score = qSparse.scores[qResult[i]._id]
        /\ \A i \in 1..(Len(qResult) - 1) : qResult[i].score >= qResult[i + 1].score

\* ------------------------------------------------------------- C21
Answered == ixQuery # NoQuery /\ ~ixQuery.raised

\* C21: every chunk _buscar_documentos_chroma returns for a strategy carries
\* that strategy's tag in the collection, after a dense, a sparse and a
\* hybrid search alike.
C21_ResultsBelongToTheStrategy ==
    Answered =>
        \A i \in 1..Len(ixQuery.result) :
            collection[ixQuery.result[i]._id] = ixQuery.strategy

\* a hybrid search asked for two chunks of a collection that holds one
\* chunk of the strategy and one of another, and returned the one
C21_Witness ==
    /\ Answered
    /\ ixQuery.search_type = "hibrida"
    /\ ixQuery.max_k = 2
    /\ \E id \in DOMAIN collection : collection[id] # ixQuery.strategy
    /\ Len(ixQuery.result) = 1

\* ------------------------------------------------------------- C27
\* every chunk of the collection is in the store of its strategy, and a
\* strategy has an index exactly when the collection holds chunks of it
FullyBuilt(indices, stores) ==
    /\ DOMAIN indices = DOMAIN stores
    /\ DOMAIN stores = {collection[id] : id \in DOMAIN collection}
    /\ \A s \in DOMAIN stores :
          /\ stores[s] = DocStoreList(CollectionGet(collection, s))
          /\ indices[s] = CollectionGet(collection, s)

\* C27: the BM25 indices and their document stores are complete when the
\* instance starts to serve; no search of any mode changes them, so after
\* any number of queries they are what they were when __init__ returned,
\* and every query read the complete indices.
C27_SparseIndicesAreImmutableSnapshots ==
    /\ chatbot_instance =>
          /\ FullyBuilt(bm25_indices, doc_store_by_strategy)
          /\ <<bm25_indices, doc_store_by_strategy>> = snapshot
    /\ ixQuery # NoQuery =>
          /\ chatbot_instance
          /\ ixQuery.seen = snapshot
          /\ FullyBuilt(ixQuery.seen[1], ixQuery.seen[2])

\* a sparse search has returned a chunk of an index over two chunks
C27_Witness ==
    /\ ixQuery # NoQuery
    /\ ixQuery.search_type = "textual"
    /\ Len(ixQuery.result) >= 1
    /\ Len(doc_store_by_strategy[ixQuery.strategy]) = 2

\* ------------------------------------------------------------- C25
SemanticRun ==
    /\ splitPc # "input"
    /\ CHUNKING_STRATEGIES[splitStrategy].function = "split_by_semantic"

\* the client is missing, or the provider raised when the chunker called it
InternalFailure(run) ==
    \/ ~splitClient
    \/ Len(splitText) > 1 /\ run.provider.raises

\* C25: split_by_semantic never raises and returns at least one chunk for a
\* non-empty text; on an internal failure, a missing embeddings client
\* included, it returns the whole text as a single chunk.
C25_SemanticFallsBackToWholeText ==
    SemanticRun =>
        \A r \in 1..Len(splitRuns) :
            /\ Len(splitRuns[r].initial_chunks) >= 1
            /\ InternalFailure(splitRuns[r]) => splitRuns[r].initial_chunks = <<splitText>>

\* The same with a client at hand: a provider that raises gives the whole
\* text, and at least one chunk comes back.
C25_FallsBackWhenClientPresent ==
    (SemanticRun /\ splitClient) =>
        \A r \in 1..Len(splitRuns) :
            /\ Len(splitRuns[r].initial_chunks) >= 1
            /\ InternalFailure(splitRuns[r]) => splitRuns[r].initial_chunks = <<splitText>>

\* ------------------------------------------------------------- C26
\* C26: two runs of a strategy, recursive or semantic, over the same
\* non-empty text with the same parameters give the same sequence of chunk
\* texts and the same chunk ids, whatever the embedding provider does in
\* either run.
C26_ChunkingIsDeterministic ==
    splitPc = "twice" =>
        /\ splitRuns[1].all_chunks_texts = splitRuns[2].all_chunks_texts
        /\ splitRuns[1].all_chunks_ids = splitRuns[2].all_chunks_ids

\* The recursive strategies alone.
C26_RecursiveIsDeterministic ==
    (splitPc = "twice"
        /\ CHUNKING_STRATEGIES[splitStrategy].function = "split_by_recursive_char") =>
        /\ splitRuns[1].all_chunks_texts = splitRuns[2].all_chunks_texts
        /\ splitRuns[1].all_chunks_ids = splitRuns[2].all_chunks_ids

\* ------------------------------------------------------------- C29
\* C29: every chunk a chunking pass persists carries a null embedding or
\* the embedding that a chunk of the same document with the same text hash
\* carried just before the pass; the chunks of a document that had no
\* chunk parameters yet all carry a null embedding.
C29_PersistedEmbeddingIsNullOrReused ==
    [][ChunkStep =>
        \A d \in DOMAIN portarias : d \in written' =>
            \A j \in 1..Len(portarias'[d].texto_blocos) :
                LET bloco == portarias'[d].texto_blocos[j]
                IN /\ \/ bloco.embedding = NullEmbedding
                      \/ \E i \in 1..Len(portarias[d].texto_blocos) :
                            /\ portarias[d].texto_blocos[i].texto_hash = bloco.texto_hash
                            /\ portarias[d].texto_blocos[i].embedding = bloco.embedding
                   /\ ~portarias[d].chunk_params.present =>
                          bloco.embedding = NullEmbedding]_vars

\* a pass has just re-chunked a document into two chunks or more, and each
\* of them carries a vector it held before
C29_Witness ==
    /\ lastOp.kind = "chunk"
    /\ \E d \in written :
          /\ portarias[d].chunk_params.status = "PROCESSADO_OK"
          /\ Len(portarias[d].texto_blocos) >= 2
          /\ \A i \in 1..Len(portarias[d].texto_blocos) :
                portarias[d].texto_blocos[i].embedding.kind = "vector"

\* ------------------------------------------------------------- C30
HandlerStep == requests' = requests + 1

IsSuffix(items, all) ==
    Len(items) <= Len(all) /\ items = SubSeq(all, Len(all) - Len(items) + 1, Len(all))

ItemsOf(hist, session_id) ==
    IF session_id \in DOMAIN hist THEN hist[session_id].items ELSE <<>>

\* the newest n of the items, oldest first
Newest(items, n) == [i \in 1..Min(n, Len(items)) |-> items[Len(items) - Min(n, Len(items)) + i]]

\* the sessions with a history are those that sent a request; each history
\* holds at most as many turns as the latest request of its session asked
\* for, and they are the latest turns responder generated, oldest first
HistoryBounded ==
    /\ DOMAIN historico = DOMAIN latest
    /\ \A s \in DOMAIN historico :
          /\ Len(historico[s].items) <= latest[s]
          /\ IsSuffix(historico[s].items, turns[s])

\* a request with a new history_length keeps the newest turns that fit; a
\* turn generated by responder is then appended, and when the history is
\* full the oldest turn makes room for it
HistoryStep ==
    [][HandlerStep =>
        LET r == lastReq'
            s == r.session_id
            kept == Newest(ItemsOf(historico, s), r.history_length)
            appended == r.endpoint = "responder" /\ ~r.raised /\ r.tokens > 0
        IN /\ s \in DOMAIN historico'
           /\ historico'[s].maxlen = r.history_length
           /\ historico'[s].items =
                 IF ~appended THEN kept
                 ELSE IF r.history_length = 0 THEN <<>>
                 ELSE IF Len(kept) = r.history_length THEN Append(Tail(kept), r.turn)
                 ELSE Append(kept, r.turn)
           /\ \A o \in DOMAIN historico \ {s} : historico'[o] = historico[o]]_vars

\* C30: a session's history is created by the first request of the session;
\* after any sequence of requests it holds at most history_length turns,
\* the value of the latest request, which are the most recent turns generated
\* with success, in chronological order; an append to a full history evicts
\* the oldest turn, and a new history_length keeps the newest turns that fit.
C30_HistoryIsBoundedAndRecent == []HistoryBounded /\ HistoryStep

\* a history of two turns was full, and the third turn has taken the place
\* of the first
C30_Witness ==
    /\ lastReq.endpoint = "responder"
    /\ lastReq.tokens > 0
    /\ lastReq.history_length = 2
    /\ turns[lastReq.session_id] = <<1, 2, 3>>
    /\ historico[lastReq.session_id].items = <<2, 3>>

\* ------------------------------------------------------------- C28
\* the request just handled generated an answer that a history of its
\* history_length has room for
GeneratedTurn(r) == ~r.raised /\ r.tokens > 0 /\ r.history_length >= 1

\* C28: requests of one session, to responder or gerar_resposta and with
\* equal or different history_length, work on one and the same history
\* object, and no turn generated with success is lost: the request that
\* generated it leaves it in the session's history.
C28_SessionHistoryIsGuarded ==
    [][HandlerStep =>
        LET r == lastReq'
            s == r.session_id
        IN /\ s \in DOMAIN historico => historico'[s].obj = historico[s].obj
           /\ GeneratedTurn(r) =>
                 /\ historico'[s].items # <<>>
                 /\ historico'[s].items[Len(historico'[s].items)] = r.turn]_vars

\* The history object of a session is the same after a request as before.
C28_SameHistoryObject ==
    [][HandlerStep =>
        (lastReq'.session_id \in DOMAIN historico =>
            historico'[lastReq'.session_id].obj = historico[lastReq'.session_id].obj)]_vars

\* What the code keeps: a request that names the history_length the session
\* already has works on the object that is there, and a turn generated by
\* responder is the newest turn of the history when the handler returns.
C28_HeldWhenLengthUnchanged ==
    [][HandlerStep =>
        LET r == lastReq'
            s == r.session_id
        IN /\ (s \in DOMAIN historico /\ historico[s].maxlen = r.history_length) =>
                 historico'[s].obj = historico[s].obj
           /\ (GeneratedTurn(r) /\ r.endpoint = "responder") =>
                 /\ historico'[s].items # <<>>
                 /\ historico'[s].items[Len(historico'[s].items)] = r.turn]_vars

\* ------------------------------------------------------------- C31
\* the operations handed to the bulk writes so far, in order
RECURSIVE Submitted(_)
Submitted(writes) ==
    IF writes = <<>> THEN <<>> ELSE Head(writes).ops \o Submitted(Tail(writes))

\* C31: during process_document_embeddings the list of unwritten updates
\* never holds more than MAX_EMBEDDING_BATCH_UPDATES operations.  A bulk
\* write inside the loop takes exactly that many and leaves the list empty,
\* whether it succeeds or fails; the write after the loop takes the
\* remainder.  So the operations written so far followed by those still in
\* the list are the generated embeddings, each once, and when the pass is
\* over every generated embedding went to exactly one bulk write.
C31_UpdateListIsBoundedAndWrittenOnce ==
    /\ Len(all_updates_for_bulk) <= MAX_EMBEDDING_BATCH_UPDATES
    /\ \A i \in 1..Len(bulk_writes) :
          /\ Len(bulk_writes[i].ops) \in 1..MAX_EMBEDDING_BATCH_UPDATES
          /\ ~bulk_writes[i].final =>
                Len(bulk_writes[i].ops) = MAX_EMBEDDING_BATCH_UPDATES
          /\ bulk_writes[i].final => batchPc = "done" /\ i = Len(bulk_writes)
    /\ batchPc = "loop" =>
          Submitted(bulk_writes) \o all_updates_for_bulk = [n \in 1..generated |-> n]
    /\ batchPc = "done" =>
          Submitted(bulk_writes) = [n \in 1..generated |-> n]

\* two full lists were written inside the loop, the first write failed and
\* the second succeeded, and one operation was left for the final write
C31_Witness ==
    /\ batchPc = "done"
    /\ generated = 2 * MAX_EMBEDDING_BATCH_UPDATES + 1
    /\ Len(bulk_writes) = 3
    /\ bulk_writes[1].exception # ""
    /\ bulk_writes[2].exception = ""
    /\ bulk_writes[3].final

\* ------------------------------------------------------------- C32
\* C32: an exception raised while a chunking pass chunks one document
\* touches that document only.  The document keeps its text, its chunks and
\* its other chunk parameters and gets the status ERRO_NO_CHUNKING (when the
\* write of the status raises as well it is left exactly as it was); every
\* other document leaves the pass as a pass without any failure leaves it.
\* The failed document is stale for the next pass, and every pass takes up
\* again a document with valid text and status ERRO_NO_CHUNKING: it stores
\* the chunks of the text, or fails on it once more.
C32_ChunkingErrorStaysOnItsDocument ==
    [][ChunkStep =>
        \A d \in DOMAIN portarias :
            LET doc == portarias[d]
                new == portarias'[d]
                chunk_size == lastOp'.chunk_size
                chunk_overlap == lastOp'.chunk_overlap
            IN /\ d \in chunkLog'.errors =>
                     /\ new = IF d \in chunkLog'.unrecorded THEN doc
                              ELSE [doc EXCEPT !.chunk_params.present = TRUE,
                                               !.chunk_params.status = "ERRO_NO_CHUNKING"]
                     /\ ValidText(new)
                     /\ MustRechunk(new, chunk_size, chunk_overlap)
               /\ d \notin chunkLog'.errors =>
                     new = ProcessDocument(doc, chunk_size, chunk_overlap, FALSE, TRUE).doc
               /\ (doc.chunk_params.status = "ERRO_NO_CHUNKING" /\ ValidText(doc)) =>
                     \/ d \in chunkLog'.errors
                     \/ /\ d \in written'
                        /\ new.chunk_params =
                               ChunkParams(ContentHash(doc), chunk_size, chunk_overlap,
                                           "PROCESSADO_OK")
                        /\ [i \in 1..Len(new.texto_blocos) |-> new.texto_blocos[i].texto]
                               = SplitText(Strip(doc.texto_completo), chunk_size, chunk_overlap)]_vars

\* one pass failed on a document, wrote its status, and chunked the other
\* document
C32_Witness ==
    /\ lastOp.kind = "chunk"
    /\ \E d \in chunkLog.errors \ chunkLog.unrecorded : \E e \in written \ chunkLog.errors :
          /\ portarias[d].chunk_params.status = "ERRO_NO_CHUNKING"
          /\ portarias[e].chunk_params.status = "PROCESSADO_OK"
          /\ portarias[e].texto_blocos # <<>>

\* ------------------------------------------------------------- C33
\* C33: main_embedding_loop returns True only when the count of pending
\* embeddings taken by its final check is zero.  Once the stagnation guard
\* has ended the loop, and once the passes are exhausted with chunks still
\* pending, the value returned is False.
C33_TrueOnlyWhenNothingIsPending ==
    /\ returned => loopPc = "returned" /\ PendingCount(portarias) = 0
    /\ (/\ loopPc = "returned"
        /\ consecutive_no_progress_count_main >= EMBEDDING_MAIN_LOOP_NO_PROGRESS_THRESHOLD)
          => ~returned
    /\ (/\ loopPc = "returned"
        /\ attempt_main = EMBEDDING_MAIN_LOOP_MAX_ATTEMPTS
        /\ PendingCount(portarias) > 0)
          => ~returned

\* the loop used all its passes without the guard tripping, chunks are still
\* pending, and False was returned
C33_Witness ==
    /\ loopPc = "returned"
    /\ attempt_main = EMBEDDING_MAIN_LOOP_MAX_ATTEMPTS
    /\ consecutive_no_progress_count_main < EMBEDDING_MAIN_LOOP_NO_PROGRESS_THRESHOLD
    /\ passAfter # <<>>
    /\ PendingCount(portarias) > 0
    /\ ~returned

\* ------------------------------------------------------------- C34
\* a pass of process_document_embeddings has just run
LoopPassStep == lastOp'.kind = "embed" /\ tick' # tick

LoopOver == loopPc \in {"returned", "raised"}

\* C34: every execution of main_embedding_loop comes to an end, and runs at
\* most EMBEDDING_MAIN_LOOP_MAX_ATTEMPTS passes before it does: the attempt
\* number never exceeds that constant and every pass belongs to an attempt
\* of its own, each pass being followed by the next attempt number or by the
\* end of the loop.  This holds whatever the passes and the counts meet,
\* also when the pending count stays where it is and no failure is counted.
C34_LoopEndsWithinMaxAttempts ==
    /\ [](attempt_main <= EMBEDDING_MAIN_LOOP_MAX_ATTEMPTS)
    /\ [][LoopPassStep =>
             /\ loopPc = "attempt"
             /\ \/ attempt_main' = attempt_main + 1 /\ loopPc' = "attempt"
                \/ attempt_main' = attempt_main /\ loopPc' = "final"]_vars
    /\ [][LoopOver => UNCHANGED vars]_vars
    /\ <>LoopOver

\* ten passes ran without a failure, the pending count never moved, and the
\* loop has ended
C34_Witness ==
    /\ loopPc = "returned"
    /\ attempt_main = EMBEDDING_MAIN_LOOP_MAX_ATTEMPTS
    /\ lastOp.kind = "embed"
    /\ ~Failed(stats)
    /\ consecutive_no_progress_count_main = 0
    /\ passAfter # <<>> /\ passAfter[1] > 0
    /\ ~decreased

\* ------------------------------------------------------------- C35
ResponderStep == HandlerStep /\ lastReq'.endpoint = "responder"

\* C35 as stated: responder appends the turn only when tokens > 0; a call
\* whose generation failed returns the apology and leaves the turns of
\* every session's history as they were, and no call changes the history of
\* another session.
C35_Original_FailedGenerationChangesNoHistory ==
    [][ResponderStep =>
        LET r == lastReq'
            s == r.session_id
        IN /\ r.resposta = "apology" =>
                 \A o \in Sessions : ItemsOf(historico', o) = ItemsOf(historico, o)
           /\ \A o \in DOMAIN historico \ {s} : historico'[o] = historico[o]]_vars

\* C35: responder appends the turn to the session's history only when
\* tokens > 0, which a generation that failed never has: it returns the
\* apology with 0 tokens and adds no turn.  What every call does to the
\* history of its own session, whatever the generation returned, is to
\* resize it to the request's history_length, which keeps the newest turns
\* that fit and drops the others.  No call changes the history of another
\* session.
C35_TurnAppendedOnlyWhenTokensArePositive ==
    [][ResponderStep =>
        LET r == lastReq'
            s == r.session_id
            resized == Newest(ItemsOf(historico, s), r.history_length)
        IN /\ r.resposta = "apology" => r.tokens = 0
           /\ (r.raised \/ r.tokens = 0) => ItemsOf(historico', s) = resized
           /\ r.tokens > 0 =>
                 /\ r.resposta = "answer"
                 /\ ItemsOf(historico', s) = Newest(Append(resized, r.turn), r.history_length)
           /\ \A o \in DOMAIN historico \ {s} : historico'[o] = historico[o]
           /\ DOMAIN historico' = DOMAIN historico \cup {s}]_vars

\* a generation has just failed for a session that holds a turn, while the
\* other session holds one too
C35_Witness ==
    /\ lastReq.endpoint = "responder"
    /\ lastReq.resposta = "apology"
    /\ \A s \in Sessions : s \in DOMAIN historico /\ Len(historico[s].items) = 1

\* ------------------------------------------------------------- C36
\* what the same call returns when asked for k results instead of max_k
DirectRetrieval(k) == Ids(BuscarDocumentosChroma(qMode, k, qDense, qSparse).result)

\* C36: for every search mode and every k up to max_k, the first k
\* documents of the list a retrieval with max_k returned are the list the
\* same retrieval returns when it is asked for k results.
C36_TruncationEqualsDirectRetrieval ==
    (QueryDone /\ ~qRaised /\ qMode \in {"vetorial", "textual", "hibrida"}) =>
        \A k \in 1..qMaxK : FirstOf(Ids(qResult), k) = DirectRetrieval(k)

\* What the code keeps: the dense and the sparse search alone rank the
\* whole collection and cut the ranking, so a shorter cut is a prefix.
C36_HoldsForSingleMethodSearches ==
    (QueryDone /\ ~qRaised /\ qMode \in {"vetorial", "textual"}) =>
        \A k \in 1..qMaxK : FirstOf(Ids(qResult), k) = DirectRetrieval(k)

\* ------------------------------------------------------------- C37
\* the valid line of the file that records a key, if there is one
Recorded(chave) == {n \in LinhasValidas(arquivo) : arquivo[n].chave = chave}

\* a step of phase 1 that called the retrieval API
RetrievalCallStep == f1Pc = "loop" /\ ultimaChamada' # NoKey

\* C37 (first half, holds): no run calls the retrieval API for a key that a
\* valid line of the intermediate file already records.
C37_NoCallForARecordedKey ==
    [][RetrievalCallStep => Recorded(ultimaChamada') = {}]_vars

\* C37 (second half, holds in this weaker form): when a run completes
\* over a file that holds no cut line, every key has a valid line; the
\* line holds the documents of the key's last call when the call
\* succeeded and the empty list when the request failed.
C37_CompleteFileRecordsEveryCall ==
    (f1Pc = "done" /\ \A n \in 1..Len(arquivo) : arquivo[n].tipo = "registro") =>
        \A chave \in Chaves :
            /\ Recorded(chave) # {}
            /\ \A n \in Recorded(chave) :
                  arquivo[n].documentos_ranqueados =
                      ChamarApiRecuperacao(apiRetorno[chave])

\* once a run completes every key has a valid line in the file
C37_EveryKeyIsRecorded ==
    f1Pc = "done" => \A chave \in Chaves : Recorded(chave) # {}

\* the line of a key holds what the retrieval API returned for it
C37_RecordedWhatTheApiReturned ==
    f1Pc = "done" =>
        \A chave \in Chaves : \A n \in Recorded(chave) :
            /\ apiRetorno[chave].ok
            /\ arquivo[n].documentos_ranqueados = apiRetorno[chave].documentos_ranqueados

\* C37: phase 1 is resumable: a re-run never repeats a retrieval call for a
\* key already recorded in the intermediate file, and once a run completes
\* every key of questions x retrieval plan is recorded with the ranked
\* documents the retrieval API returned for it.
C37_PhaseOneIsResumable ==
    /\ C37_NoCallForARecordedKey
    /\ [](C37_EveryKeyIsRecorded /\ C37_RecordedWhatTheApiReturned)

\* ------------------------------------------------------------- C38
\* the chunks of document batch i
ChunksOfLote(i) == {ChunkId(i, j) : j \in 1..lotes[i]}

\* C38: a chunk is in the vector store only when an embedding was
\* generated for every chunk of its document batch, and it is stored with
\* its own embedding, text and metadata; when an embedding call fails
\* nothing of that batch (nor of a later one) is written, the function is
\* over and it returns False.
C38_BatchWrittenOnlyWhenFullyEmbedded ==
    /\ \A r \in colecao :
          /\ r.document = ChunkText(r.id)
          /\ r.embedding = ItemEmbedding(r.document)
          /\ r.metadata = ChunkMetadata(r.id)
          /\ \A id \in ChunksOfLote(r.id[1]) : ChunkText(id) \in gerados
    /\ falhaEm # 0 =>
          /\ etlPc = "returned"
          /\ ~overall_success
          /\ \A r \in colecao : r.id[1] < falhaEm

\* the first batch, of two embedding calls, is stored whole; the second
\* call of the second batch fails
C38_Witness ==
    /\ falhaEm = 2
    /\ embJ = EMBEDDING_API_BATCH_SIZE
    /\ {r.id : r \in colecao} = ChunksOfLote(1)
    /\ lotes[1] > EMBEDDING_API_BATCH_SIZE

\* ------------------------------------------------------------- C39
\* C39: a run of the collector that extracted no document deletes nothing:
\* the stored documents, their chunks and their embeddings are after the
\* run exactly what they were before it.
C39_EmptyExtractionDeletesNothing ==
    [][(SyncStep /\ syncLog'.current_run_ids = {}) => portarias' = portarias]_vars

\* a run that extracted nothing found a document stored with an embedded
\* chunk, and the document is still there
C39_Witness ==
    /\ lastOp.kind = "sync"
    /\ syncLog.current_run_ids = {}
    /\ syncLog.db_ids # {}
    /\ \E d \in DOMAIN portarias :
          /\ portarias[d].texto_blocos # <<>>
          /\ HasEmbedding(portarias[d].texto_blocos[1])

\* ------------------------------------------------------------- C40
\* the documents stored before a run of the collector and still stored
\* after it
KeptBySync == DOMAIN portarias \cap DOMAIN portarias'

\* C40: a run of the collector changes of a document already stored only
\* its collected text; its chunks with their embeddings and its chunk
\* parameters are what they were, so the change detection and the lookup
\* of reusable embeddings of the next chunking pass, taken on the new
\* text, read the chunk set of before the run.
C40_RecollectionKeepsChunksAndEmbeddings ==
    [][SyncStep =>
          \A d \in KeptBySync :
             LET hash == Sha256(Strip(portarias'[d].texto_completo))
             IN /\ portarias'[d].texto_blocos = portarias[d].texto_blocos
                /\ portarias'[d].chunk_params = portarias[d].chunk_params
                /\ [portarias'[d] EXCEPT !.texto_completo = portarias[d].texto_completo]
                       = portarias[d]
                /\ d \notin syncLog'.applied => portarias'[d] = portarias[d]
                /\ NeedsReprocessing(portarias'[d].chunk_params, hash, 1, 0)
                       = NeedsReprocessing(portarias[d].chunk_params, hash, 1, 0)
                /\ ExistingBlocksEmbeddings(portarias'[d], hash)
                       = ExistingBlocksEmbeddings(portarias[d], hash)]_vars

\* a run collected again a document stored with an embedded chunk, its text
\* is no longer the one its chunk parameters were computed from, and the
\* chunk is still there
C40_Witness ==
    /\ lastOp.kind = "sync"
    /\ \E d \in syncLog.applied \cap syncLog.db_ids :
          /\ portarias[d].texto_blocos # <<>>
          /\ HasEmbedding(portarias[d].texto_blocos[1])
          /\ portarias[d].chunk_params.present
          /\ portarias[d].chunk_params.hash # Sha256(Strip(portarias[d].texto_completo))

====
